---- MODULE Spec2Model ----
(***************************************************************************)
(* A model of the MassiveSweeper front end: the chunk store                *)
(* (useChunkedGridStore), its socket handlers, and the canvas input        *)
(* handlers of GridCanvas.                                                 *)
(***************************************************************************)
EXTENDS Integers, Sequences, FiniteSets, TLC

VARIABLES
    loadedChunks,       \* store: Record<string, Chunk>, a function on the cached keys
    requestedChunks,    \* store: Set<string> of keys being requested
    gridSize,           \* store: {width, height} or NULL
    fetchPending,       \* the mount-time fetchGridSize promise is not settled yet
    isSocketConnected,  \* GridCanvas: socket connection state
    outstanding,        \* network: per key, get_chunk emitted and not yet answered
    sinceFault,         \* network: those of outstanding emitted after the last connect_error
    faults,             \* number of connect_error events handled so far
    cleared,            \* keys a connect_error dropped from pending, not requested since
    emitted,            \* the socket.emit calls of the last handler, in order
    ev,                 \* the last store or socket event with its arguments; "canvas" after a GridCanvas handler
    offset,             \* GridCanvas: viewport offset {x, y} in pixels
    zoom,               \* GridCanvas: zoom, in thousandths
    canvasSize,         \* GridCanvas: {width, height} of the canvas in pixels
    isPanning,          \* GridCanvas: a pan drag is going on
    lastMouse,          \* GridCanvas: the pointer position of the last pan step, or NULL
    isSpaceDown,        \* GridCanvas: the space key is held
    hoverCell,          \* GridCanvas: the cell under the pointer, or NULL
    pressedButtons,     \* GridCanvas: the set of held mouse buttons
    pressedCell,        \* GridCanvas: the cell of the mouse-down, or NULL
    captured,           \* the offset and canvasSize the memoized calculateVisibleChunks reads
    timers,             \* the pending setTimeout callbacks, each with the closure it holds
    wheels,             \* number of wheel events handled so far
    panStart,           \* offset minus pointer position, and zoom, at the mouse-down that began the pan, while only moves followed
    drawn,              \* the cells the last render pass filled on the canvas
    retryCount,         \* GridCanvas: retryCount of the running stats-polling effect
    statsInFlight,      \* stats polls of the running effect that have not settled yet
    serverChunks,       \* server: the authoritative chunk matrices
    wire,               \* server to client: the messages sent and not yet delivered, in order
    dropped,            \* per key, the last cell_update the store dropped, or NULL
    backendStats,       \* GridCanvas: the revealed and totalMines of the last successful stats poll
    showCompletion,     \* GridCanvas: the completion screen is shown
    completionMinimized,\* GridCanvas: the player minimized the completion screen
    resetSeen           \* history: the polled revealed count was below COMPLETION_RESET_THRESHOLD at or after the last minimize

storeVars == <<loadedChunks, requestedChunks, gridSize, fetchPending>>
netVars == <<isSocketConnected, outstanding, sinceFault, faults, cleared>>
viewVars == <<offset, zoom, canvasSize, captured>>
pointerVars == <<isPanning, lastMouse, isSpaceDown, hoverCell, pressedButtons, pressedCell>>
inputVars == <<offset, zoom, canvasSize, captured, isPanning, lastMouse, isSpaceDown,
               hoverCell, pressedButtons, pressedCell, timers, wheels, panStart>>
statsVars == <<retryCount, statsInFlight>>
serverVars == <<serverChunks, wire, dropped>>
completionVars == <<backendStats, showCompletion, completionMinimized, resetSeen>>
\* what no input handler of the canvas writes
sideVars == <<drawn, retryCount, statsInFlight, serverChunks, wire, dropped,
             backendStats, showCompletion, completionMinimized, resetSeen>>
vars == <<loadedChunks, requestedChunks, gridSize, fetchPending,
          isSocketConnected, outstanding, sinceFault, faults, cleared, emitted, ev,
          offset, zoom, canvasSize, captured, isPanning, lastMouse, isSpaceDown,
          hoverCell, pressedButtons, pressedCell, timers, wheels, panStart, drawn,
          retryCount, statsInFlight, serverChunks, wire, dropped,
          backendStats, showCompletion, completionMinimized, resetSeen>>

----------------------------------------------------------------------------
(* Bounds of the model *)

\* side of the chunk matrices the server sends
ChunkSide == 2
\* connect_error events in one behaviour
MaxFaults == 1
\* the viewport offset stays within MaxPan pixels of the origin
MaxPan == 13
\* setTimeout callbacks pending at a time
MaxTimers == 1
\* wheel events in one behaviour
MaxWheels == 1
\* failed stats polls counted by one run of the polling effect
MaxFailedPolls == 4
\* stats polls under way at a time
MaxStatsInFlight == 3
\* messages on their way from the server to the client at a time
MaxWire == 2
\* clampZoom is applied to every zoom from -MaxZoomInput to MaxZoomInput thousandths
MaxZoomInput == 5000
\* worldToChunk and worldToLocal are applied to every coordinate from -MaxWorld to MaxWorld
MaxWorld == 250

----------------------------------------------------------------------------
(* Program constants *)

CHUNK_SIZE == 100

CELL_SIZE == 10

\* zoom values are held in thousandths: 1.0 is ZoomUnit
ZoomUnit == 1000

ZOOM_LIMITS == [MIN |-> 350, MAX |-> 4000]

DEFAULT_ZOOM == ZoomUnit

\* ZOOM_INTENSITY * 0.01 is 0.001: one unit of deltaY is one thousandth of zoom
ZoomPerDelta == 1

MAX_BUFFER_ZONE == 3
MIN_VISIBLE_CHUNKS == 4

NULL == [null |-> TRUE]

Max(a, b) == IF a >= b THEN a ELSE b

Min(a, b) == IF a <= b THEN a ELSE b

----------------------------------------------------------------------------
(* Chunk keys: `${cx},${cy}` and key.split(',').map(Number).  A string is  *)
(* modelled as the sequence of its characters.                             *)

DigitChar(d) ==
    CASE d = 0 -> "0" [] d = 1 -> "1" [] d = 2 -> "2" [] d = 3 -> "3"
      [] d = 4 -> "4" [] d = 5 -> "5" [] d = 6 -> "6" [] d = 7 -> "7"
      [] d = 8 -> "8" [] d = 9 -> "9"

CharDigit(c) ==
    CASE c = "0" -> 0 [] c = "1" -> 1 [] c = "2" -> 2 [] c = "3" -> 3
      [] c = "4" -> 4 [] c = "5" -> 5 [] c = "6" -> 6 [] c = "7" -> 7
      [] c = "8" -> 8 [] c = "9" -> 9

RECURSIVE NatToString(_)
NatToString(n) ==
    IF n < 10 THEN <<DigitChar(n)>>
    ELSE NatToString(n \div 10) \o <<DigitChar(n % 10)>>

\* the template literal's number-to-string conversion
NumberToString(n) ==
    IF n < 0 THEN <<"-">> \o NatToString(-n) ELSE NatToString(n)

RECURSIVE StringToNat(_)
StringToNat(s) ==
    IF Len(s) = 0 THEN 0
    ELSE 10 * StringToNat(SubSeq(s, 1, Len(s) - 1)) + CharDigit(s[Len(s)])

\* Number(s) on the decimal strings the keys hold
StringToNumber(s) ==
    IF Len(s) > 0 /\ s[1] = "-" THEN -StringToNat(Tail(s)) ELSE StringToNat(s)

createChunkKey(cx, cy) == NumberToString(cx) \o <<",">> \o NumberToString(cy)

\* key.split(','): the pieces between the commas
RECURSIVE SplitComma(_)
SplitComma(s) ==
    IF \A i \in 1..Len(s) : s[i] # ","
    THEN <<s>>
    ELSE LET i == CHOOSE j \in 1..Len(s) :
                      s[j] = "," /\ \A h \in 1..(j - 1) : s[h] # ","
         IN  <<SubSeq(s, 1, i - 1)>> \o SplitComma(SubSeq(s, i + 1, Len(s)))

\* a parse that returns the two coordinates in the wrong order
KeyCoords_Swapped(key) ==
    LET parts == SplitComma(key)
    IN  <<StringToNumber(parts[2]), StringToNumber(parts[1])>>

\* const [cx, cy] = key.split(',').map(Number)
KeyCoords(key) ==
    LET parts == SplitComma(key)
    IN  <<StringToNumber(parts[1]), StringToNumber(parts[2])>>

----------------------------------------------------------------------------
(* Cells and chunks *)

Cell(revealed, flagged) ==
    [revealed |-> revealed, hasMine |-> FALSE, adjacentMines |-> 0,
     flagged |-> flagged]

CellValues == {Cell(TRUE, FALSE), Cell(FALSE, TRUE)}

\* a chunk is Cell[][], indexed [localY][localX]; in the model row y is at y + 1
UniformChunk(cell) == [r \in 1..ChunkSide |-> [c \in 1..ChunkSide |-> cell]]

ChunkValues == {UniformChunk(Cell(FALSE, FALSE)), UniformChunk(Cell(TRUE, FALSE))}

----------------------------------------------------------------------------
(* The chunk store.  A store value is the record                           *)
(*   [loaded, requested, grid, sent]                                       *)
(* of loadedChunks, requestedChunks, gridSize and the socket.emit calls    *)
(* made so far by the running handler.                                     *)

GetChunkMsg(cx, cy) == [type |-> "get_chunk", cx |-> cx, cy |-> cy]

ActionMsg(type, cx, cy, x, y) == [type |-> type, cx |-> cx, cy |-> cy, x |-> x, y |-> y]

maxChunk(dimension) == (dimension \div CHUNK_SIZE) - 1

\* a clamp that lets the coordinate one past the last chunk through
clampChunk_OnePast(c, dimension) == Max(0, Min(c, maxChunk(dimension) + 1))

clampChunk(c, dimension) == Max(0, Min(c, maxChunk(dimension)))

\* the key requestChunk(cx, cy) works on
clampedKey(grid, cx, cy) ==
    createChunkKey(clampChunk(cx, grid.width), clampChunk(cy, grid.height))

\* a request that does not look at the cache
requestChunk_IgnoresCache(s, cx, cy) ==
    IF s.grid = NULL
    THEN s
    ELSE LET clampedCx == clampChunk(cx, s.grid.width)
             clampedCy == clampChunk(cy, s.grid.height)
             key == createChunkKey(clampedCx, clampedCy)
         IN  IF key \notin s.requested
             THEN [s EXCEPT !.requested = @ \cup {key},
                            !.sent = Append(@, GetChunkMsg(clampedCx, clampedCy))]
             ELSE s

\* a request that does not look at the pending set
requestChunk_IgnoresPending(s, cx, cy) ==
    IF s.grid = NULL
    THEN s
    ELSE LET clampedCx == clampChunk(cx, s.grid.width)
             clampedCy == clampChunk(cy, s.grid.height)
             key == createChunkKey(clampedCx, clampedCy)
         IN  IF key \notin DOMAIN s.loaded
             THEN [s EXCEPT !.requested = @ \cup {key},
                            !.sent = Append(@, GetChunkMsg(clampedCx, clampedCy))]
             ELSE s

\* a request that falls back to a one-chunk grid while the grid size is unknown
requestChunk_DefaultGrid(s, cx, cy) ==
    LET grid == IF s.grid = NULL
                THEN [width |-> CHUNK_SIZE, height |-> CHUNK_SIZE]
                ELSE s.grid
        clampedCx == clampChunk(cx, grid.width)
        clampedCy == clampChunk(cy, grid.height)
        key == createChunkKey(clampedCx, clampedCy)
    IN  IF key \notin DOMAIN s.loaded /\ key \notin s.requested
        THEN [s EXCEPT !.requested = @ \cup {key},
                       !.sent = Append(@, GetChunkMsg(clampedCx, clampedCy))]
        ELSE s

requestChunk(s, cx, cy) ==
    IF s.grid = NULL
    THEN s
    ELSE LET clampedCx == clampChunk(cx, s.grid.width)
             clampedCy == clampChunk(cy, s.grid.height)
             key == createChunkKey(clampedCx, clampedCy)
         IN  IF key \notin DOMAIN s.loaded /\ key \notin s.requested
             THEN [s EXCEPT !.requested = @ \cup {key},
                            !.sent = Append(@, GetChunkMsg(clampedCx, clampedCy))]
             ELSE s

\* a setChunk that leaves the pending set alone
setChunk_KeepsPending(s, cx, cy, chunk) ==
    LET key == createChunkKey(cx, cy)
    IN  [s EXCEPT !.loaded = [k \in (DOMAIN s.loaded) \cup {key} |->
                                 IF k = key THEN chunk ELSE s.loaded[k]]]

\* a setChunk that keeps the chunk it already has (first arrival wins)
setChunk_KeepsExisting(s, cx, cy, chunk) ==
    LET key == createChunkKey(cx, cy)
    IN  [s EXCEPT !.loaded = [k \in (DOMAIN s.loaded) \cup {key} |->
                                 IF k \in DOMAIN s.loaded THEN s.loaded[k] ELSE chunk],
                  !.requested = {k \in s.requested : k # key}]

setChunk(s, cx, cy, chunk) ==
    LET key == createChunkKey(cx, cy)
    IN  [s EXCEPT !.loaded = [k \in (DOMAIN s.loaded) \cup {key} |->
                                 IF k = key THEN chunk ELSE s.loaded[k]],
                  !.requested = {k \in s.requested : k # key}]

\* a replacement that fills the whole row y with the cell
replaceCell_WholeRow(chunk, x, y, cell) ==
    [r \in DOMAIN chunk |->
        IF r - 1 = y THEN [c \in DOMAIN chunk[r] |-> cell] ELSE chunk[r]]

\* chunk.map((row, rowIdx) => rowIdx === y ? row.map(...) : row)
replaceCell(chunk, x, y, cell) ==
    [r \in DOMAIN chunk |->
        IF r - 1 = y
        THEN [c \in DOMAIN chunk[r] |-> IF c - 1 = x THEN cell ELSE chunk[r][c]]
        ELSE chunk[r]]

\* an update that also takes the chunk's key out of the pending set
updateCell_ClearsPending(s, cx, cy, x, y, cell) ==
    LET key == createChunkKey(cx, cy)
    IN  [s EXCEPT !.requested = {k \in s.requested : k # key}]

updateCell(s, cx, cy, x, y, cell) ==
    LET key == createChunkKey(cx, cy)
    IN  IF key \notin DOMAIN s.loaded
        THEN s
        ELSE [s EXCEPT !.loaded = [k \in DOMAIN s.loaded |->
                                      IF k = key
                                      THEN replaceCell(s.loaded[key], x, y, cell)
                                      ELSE s.loaded[k]]]

clearRequestedChunk(s, cx, cy) ==
    LET key == createChunkKey(cx, cy)
    IN  [s EXCEPT !.requested = {k \in s.requested : k # key}]

\* store.requestedChunks.forEach(key => store.clearRequestedChunk(...key.split(',')))
\* over the snapshot `keys` of the set taken when the handler starts
RECURSIVE clearEach(_, _)
clearEach(s, keys) ==
    IF keys = {}
    THEN s
    ELSE LET key == CHOOSE k \in keys : TRUE
             c == KeyCoords(key)
         IN  clearEach(clearRequestedChunk(s, c[1], c[2]), keys \ {key})

onConnectError(s) == clearEach(s, s.requested)

\* the store the running handler starts from
Store == [loaded |-> loadedChunks, requested |-> requestedChunks,
          grid |-> gridSize, sent |-> <<>>]

----------------------------------------------------------------------------
(* Coordinates and the visible chunk set (constants/game.ts, GridCanvas) *)

\* Math.ceil(a / b) for b > 0
CeilDiv(a, b) == -((-a) \div b)

\* the JavaScript remainder a % b for b > 0: it has the sign of a
JsRem(a, b) == IF a >= 0 THEN a % b ELSE -((-a) % b)

worldToChunk(worldCoord) == worldCoord \div CHUNK_SIZE

\* a local coordinate taken as the plain remainder
worldToLocal_PlainRemainder(worldCoord) == JsRem(worldCoord, CHUNK_SIZE)

worldToLocal(worldCoord) ==
    JsRem(JsRem(worldCoord, CHUNK_SIZE) + CHUNK_SIZE, CHUNK_SIZE)

\* a bounds test that forgets the right and bottom edges
isWithinGridBounds_NoUpperBound(x, y, gridWidth, gridHeight) ==
    x >= 0 /\ y >= 0

isWithinGridBounds(x, y, gridWidth, gridHeight) ==
    x >= 0 /\ y >= 0 /\ x < gridWidth /\ y < gridHeight

\* a clamp that forgets the upper limit
clampZoom_NoUpper(z) == Max(ZOOM_LIMITS.MIN, z)

clampZoom(z) == Max(ZOOM_LIMITS.MIN, Min(ZOOM_LIMITS.MAX, z))

\* the steps in the opposite order: the widest buffer at the lowest zoom
getBufferZoneSize_WidestWhenZoomedOut(z) ==
    IF z >= 2 * ZoomUnit THEN 0
    ELSE IF z >= ZoomUnit THEN Min(MAX_BUFFER_ZONE, 1)
    ELSE IF 2 * z >= ZoomUnit THEN Min(MAX_BUFFER_ZONE, 2)
    ELSE Min(MAX_BUFFER_ZONE, 3)

getBufferZoneSize(z) ==
    IF z >= 2 * ZoomUnit THEN Min(MAX_BUFFER_ZONE, 3)
    ELSE IF z >= ZoomUnit THEN Min(MAX_BUFFER_ZONE, 2)
    ELSE IF 2 * z >= ZoomUnit THEN Min(MAX_BUFFER_ZONE, 1)
    ELSE 0

expandChunkBounds(bounds, bufferSize) ==
    [left |-> Max(0, bounds.left - bufferSize),
     top |-> Max(0, bounds.top - bufferSize),
     right |-> bounds.right + bufferSize,
     bottom |-> bounds.bottom + bufferSize]

\* the cell under client point (px, py): Math.floor((p - offset) / zoom / CELL_SIZE);
\* the canvas is at the top left of the page, so rect.left = rect.top = 0
getMouseGridCoordinates(px, py, off, z) ==
    [cellX |-> ((px - off.x) * ZoomUnit) \div (z * CELL_SIZE),
     cellY |-> ((py - off.y) * ZoomUnit) \div (z * CELL_SIZE)]

\* a closure c = [grid, zoom, offset, canvasSize] is what one render's
\* requestVisibleChunks reads: gridSize and zoom of that render, offset and
\* canvasSize of the render that last re-created calculateVisibleChunks
getVisibleBounds(c) ==
    IF c.grid = NULL
    THEN [left |-> 0, top |-> 0, right |-> 0, bottom |-> 0]
    ELSE [left |-> Max(0, ((-c.offset.x) * ZoomUnit) \div (CELL_SIZE * c.zoom)),
          top |-> Max(0, ((-c.offset.y) * ZoomUnit) \div (CELL_SIZE * c.zoom)),
          right |-> Min(c.grid.width,
                        CeilDiv((c.canvasSize.width - c.offset.x) * ZoomUnit,
                                CELL_SIZE * c.zoom)),
          bottom |-> Min(c.grid.height,
                         CeilDiv((c.canvasSize.height - c.offset.y) * ZoomUnit,
                                 CELL_SIZE * c.zoom))]

\* chunkLeft, chunkTop, chunkRight + 1 and chunkBottom + 1 taken for the last
\* chunk: the far edges are the chunks of cells right and bottom themselves
visibleChunkBounds_FarEdgeInclusive(c) ==
    LET b == getVisibleBounds(c)
    IN  [left |-> b.left \div CHUNK_SIZE,
         top |-> b.top \div CHUNK_SIZE,
         right |-> b.right \div CHUNK_SIZE,
         bottom |-> b.bottom \div CHUNK_SIZE]

\* chunkLeft, chunkTop, chunkRight, chunkBottom: the chunks of the first and
\* of the last visible cell on each axis, before the buffer is added
visibleChunkBounds(c) ==
    LET b == getVisibleBounds(c)
    IN  [left |-> b.left \div CHUNK_SIZE,
         top |-> b.top \div CHUNK_SIZE,
         right |-> (b.right - 1) \div CHUNK_SIZE,
         bottom |-> (b.bottom - 1) \div CHUNK_SIZE]

\* a final rectangle whose far edges are clamped to the last chunk only
visibleChunkRect_FarEdgeUnfloored(c) ==
    LET expandedBounds ==
            expandChunkBounds(visibleChunkBounds(c), getBufferZoneSize(c.zoom))
        maxChunkX == (c.grid.width \div CHUNK_SIZE) - 1
        maxChunkY == (c.grid.height \div CHUNK_SIZE) - 1
    IN  [left |-> Max(0, Min(expandedBounds.left, maxChunkX)),
         top |-> Max(0, Min(expandedBounds.top, maxChunkY)),
         right |-> Min(expandedBounds.right, maxChunkX),
         bottom |-> Min(expandedBounds.bottom, maxChunkY)]

\* the final rectangle of calculateVisibleChunks: left..right, top..bottom
visibleChunkRect(c) ==
    LET expandedBounds ==
            expandChunkBounds(visibleChunkBounds(c), getBufferZoneSize(c.zoom))
        maxChunkX == (c.grid.width \div CHUNK_SIZE) - 1
        maxChunkY == (c.grid.height \div CHUNK_SIZE) - 1
    IN  [left |-> Max(0, Min(expandedBounds.left, maxChunkX)),
         top |-> Max(0, Min(expandedBounds.top, maxChunkY)),
         right |-> Max(0, Min(expandedBounds.right, maxChunkX)),
         bottom |-> Max(0, Min(expandedBounds.bottom, maxChunkY))]

\* the row of chunks cy, from cx on
RECURSIVE chunkRow(_, _, _)
chunkRow(cx, right, cy) ==
    IF cx > right THEN <<>> ELSE <<[cx |-> cx, cy |-> cy]>> \o chunkRow(cx + 1, right, cy)

RECURSIVE chunkRows(_, _)
chunkRows(cy, rect) ==
    IF cy > rect.bottom THEN <<>>
    ELSE chunkRow(rect.left, rect.right, cy) \o chunkRows(cy + 1, rect)

calculateVisibleChunks(c) ==
    IF c.grid = NULL THEN <<>> ELSE chunkRows(visibleChunkRect(c).top, visibleChunkRect(c))

RECURSIVE requestEach(_, _)
requestEach(s, chunks) ==
    IF Len(chunks) = 0 THEN s
    ELSE requestEach(requestChunk(s, Head(chunks).cx, Head(chunks).cy), Tail(chunks))

requestVisibleChunks(s, c) ==
    IF c.grid = NULL THEN s ELSE requestEach(s, calculateVisibleChunks(c))

----------------------------------------------------------------------------
(* Inputs *)

\* grid sizes the server reports
GridSizes ==
    {[width |-> 2 * CHUNK_SIZE, height |-> CHUNK_SIZE],
     [width |-> CHUNK_SIZE + CHUNK_SIZE \div 2, height |-> CHUNK_SIZE + CHUNK_SIZE \div 2]}

\* chunk coordinates handed to requestChunk: inside, below and above the grid
RequestCoords == {<<0, 0>>, <<1, 0>>, <<-1, -1>>, <<2, 1>>}

\* chunk coordinates of the largest grid
ChunkXs == 0..1

\* the keys a get_chunk can carry
AllKeys == {createChunkKey(cx, 0) : cx \in ChunkXs}

\* positions (x, y) a cell_update names: one inside the chunk matrix, one below it
UpdatePositions == {<<ChunkSide - 1, 0>>, <<0, ChunkSide>>}

\* window.innerWidth x window.innerHeight when the page mounts, and after a resize
InitialCanvas == [width |-> 1200, height |-> 600]

\* the grid the server announces while the canvas handlers are exercised
InputGridSizes == {[width |-> 2 * CHUNK_SIZE, height |-> CHUNK_SIZE]}

\* pointer positions (clientX, clientY): over cells (0,0) and (1,0) of the
\* unpanned grid at zoom 1.0
MousePoints == {[x |-> 5, y |-> 5], [x |-> 15, y |-> 5]}

\* e.button of a mouse-down on the canvas: primary and secondary
Buttons == {0, 2}

\* e.button of a mouse-up anywhere in the window: also the middle button
ReleasedButtons == {0, 1, 2}

\* e.deltaY of a wheel event
WheelDeltas == {-1000, 1000}

\* the number of get_chunk messages for `key` among the emitted messages
RECURSIVE CountGetChunk(_, _)
CountGetChunk(msgs, key) ==
    IF Len(msgs) = 0 THEN 0
    ELSE (IF Head(msgs).type = "get_chunk"
             /\ createChunkKey(Head(msgs).cx, Head(msgs).cy) = key
          THEN 1 ELSE 0) + CountGetChunk(Tail(msgs), key)

----------------------------------------------------------------------------
(* Initial state: the store as created, the page just mounted *)

\* the state after construction, for a window of the given size; firstEv is
\* the event the history starts from
InitState(canvas, firstEv) ==
    /\ loadedChunks = <<>>
    /\ requestedChunks = {}
    /\ gridSize = NULL
    /\ fetchPending = TRUE
    /\ isSocketConnected = FALSE
    /\ outstanding = [k \in AllKeys |-> 0]
    /\ sinceFault = [k \in AllKeys |-> 0]
    /\ faults = 0
    /\ cleared = {}
    /\ emitted = <<>>
    /\ ev = firstEv
    /\ offset = [x |-> 0, y |-> 0]
    /\ zoom = DEFAULT_ZOOM
    /\ canvasSize = canvas
    /\ isPanning = FALSE
    /\ lastMouse = NULL
    /\ isSpaceDown = FALSE
    /\ hoverCell = NULL
    /\ pressedButtons = {}
    /\ pressedCell = NULL
    /\ captured = [offset |-> [x |-> 0, y |-> 0], canvasSize |-> canvas]
    /\ timers = <<>>
    /\ wheels = 0
    /\ panStart = NULL
    /\ drawn = {}
    \* the polling effect has run once: retryCount = 0 and fetchStats() is under way
    /\ retryCount = 0
    /\ statsInFlight = 1
    /\ serverChunks = [k \in AllKeys |-> UniformChunk(Cell(FALSE, FALSE))]
    /\ wire = <<>>
    /\ dropped = [k \in AllKeys |-> NULL]
    /\ backendStats = [revealed |-> 0, totalMines |-> 0]
    /\ showCompletion = FALSE
    /\ completionMinimized = FALSE
    /\ resetSeen = TRUE

Init == InitState(InitialCanvas, [kind |-> "init"])

\* the stats-polling effect depends on [isSocketConnected]: when a handler
\* changes it, the cleanup clears the interval and the effect runs again with
\* a new retryCount = 0 and an immediate fetchStats(); polls of the old run
\* that settle later touch only the old run's retryCount
pollingEffect(connected) ==
    IF connected # isSocketConnected
    THEN retryCount' = 0 /\ statsInFlight' = 1
    ELSE UNCHANGED statsVars

\* the store the handler leaves, and what it sent
Commit(s) ==
    /\ loadedChunks' = s.loaded
    /\ requestedChunks' = s.requested
    /\ gridSize' = s.grid
    /\ emitted' = s.sent
    /\ outstanding' = [k \in AllKeys |-> outstanding[k] + CountGetChunk(s.sent, k)]
    /\ sinceFault' = [k \in AllKeys |-> sinceFault[k] + CountGetChunk(s.sent, k)]

\* fetchGridSize resolves: set({ gridSize: { width, height } })
FetchGridSizeOk(size) ==
    /\ fetchPending
    /\ fetchPending' = FALSE
    /\ gridSize' = size
    /\ emitted' = <<>>
    /\ ev' = [kind |-> "fetchGridSize", ok |-> TRUE]
    /\ UNCHANGED <<loadedChunks, requestedChunks, netVars>>
    /\ UNCHANGED <<inputVars, drawn, serverVars, statsVars, completionVars>>

\* fetch or response.json() throws: the catch block only logs
FetchGridSizeFail ==
    /\ fetchPending
    /\ fetchPending' = FALSE
    /\ emitted' = <<>>
    /\ ev' = [kind |-> "fetchGridSize", ok |-> FALSE]
    /\ UNCHANGED <<loadedChunks, requestedChunks, gridSize, netVars>>
    /\ UNCHANGED <<inputVars, drawn, serverVars, statsVars, completionVars>>

\* the key is neither cached nor pending
Fresh(key) == key \notin DOMAIN loadedChunks /\ key \notin requestedChunks

\* a direct call of requestChunk; `fresh` and `repeat` record what the call found:
\* a fresh key, and a call that directly follows a call for the same fresh key
RequestChunk(cx, cy) ==
    /\ Commit(requestChunk(Store, cx, cy))
    /\ ev' = [kind |-> "requestChunk", cx |-> cx, cy |-> cy,
              fresh |-> gridSize # NULL /\ Fresh(clampedKey(gridSize, cx, cy)),
              repeat |-> /\ gridSize # NULL
                         /\ ev.kind = "requestChunk"
                         /\ ev.fresh
                         /\ clampedKey(gridSize, ev.cx, ev.cy) = clampedKey(gridSize, cx, cy)]
    /\ cleared' = IF gridSize = NULL THEN cleared
                  ELSE cleared \ {clampedKey(gridSize, cx, cy)}
    /\ UNCHANGED <<fetchPending, isSocketConnected, faults>>
    /\ UNCHANGED <<inputVars, drawn, serverVars, statsVars, completionVars>>

\* socket.on("chunk_data"): the server's answer to one outstanding get_chunk of
\* the key, emitted before (stale) or after the last connect_error
ChunkData(cx, cy, chunk, stale) ==
    LET key == createChunkKey(cx, cy)
        s == setChunk(Store, cx, cy, chunk)
    IN  /\ key \in AllKeys
        /\ IF stale THEN outstanding[key] > sinceFault[key] ELSE sinceFault[key] > 0
        /\ loadedChunks' = s.loaded
        /\ requestedChunks' = s.requested
        /\ emitted' = s.sent
        /\ outstanding' = [outstanding EXCEPT ![key] = @ - 1]
        /\ sinceFault' = IF stale THEN sinceFault ELSE [sinceFault EXCEPT ![key] = @ - 1]
        /\ ev' = [kind |-> "chunk_data", cx |-> cx, cy |-> cy, chunk |-> chunk,
                  cached |-> key \in DOMAIN loadedChunks,
                  pending |-> key \in requestedChunks]
        /\ UNCHANGED <<gridSize, fetchPending, isSocketConnected, faults, cleared>>
        /\ UNCHANGED <<inputVars, drawn, serverVars, statsVars, completionVars>>

\* socket.on("cell_update")
CellUpdate(cx, cy, x, y, cell) ==
    LET s == updateCell(Store, cx, cy, x, y, cell)
    IN  /\ loadedChunks' = s.loaded
        /\ requestedChunks' = s.requested
        /\ emitted' = s.sent
        /\ ev' = [kind |-> "cell_update", cx |-> cx, cy |-> cy, x |-> x, y |-> y,
                  cell |-> cell]
        /\ UNCHANGED <<gridSize, fetchPending, netVars>>
        /\ UNCHANGED <<inputVars, drawn, serverVars, statsVars, completionVars>>

\* socket.on("connect_error"): the store's handler, then GridCanvas's
ConnectError ==
    LET s == onConnectError(Store)
    IN  /\ faults < MaxFaults
        /\ faults' = faults + 1
        /\ loadedChunks' = s.loaded
        /\ requestedChunks' = s.requested
        /\ emitted' = s.sent
        /\ isSocketConnected' = FALSE
        /\ sinceFault' = [k \in AllKeys |-> 0]
        /\ cleared' = cleared \cup requestedChunks
        /\ ev' = [kind |-> "connect_error"]
        /\ UNCHANGED <<gridSize, fetchPending, outstanding>>
        /\ UNCHANGED <<inputVars, drawn, serverVars, completionVars>>
        /\ pollingEffect(FALSE)

\* socket.on('disconnect'): GridCanvas's handleDisconnect
Disconnect ==
    /\ isSocketConnected
    /\ isSocketConnected' = FALSE
    /\ emitted' = <<>>
    /\ ev' = [kind |-> "disconnect"]
    /\ UNCHANGED <<storeVars, outstanding, sinceFault, faults, cleared>>
    /\ UNCHANGED <<inputVars, drawn, serverVars, completionVars>>
    /\ pollingEffect(FALSE)

\* socket.on("connect"): socket.ts emits user_connect, GridCanvas's handleConnect
Connect ==
    /\ ~isSocketConnected
    /\ isSocketConnected' = TRUE
    /\ emitted' = <<[type |-> "user_connect"]>>
    /\ ev' = [kind |-> "connect"]
    /\ UNCHANGED <<storeVars, outstanding, sinceFault, faults, cleared>>
    /\ UNCHANGED <<inputVars, drawn, serverVars, completionVars>>
    /\ pollingEffect(TRUE)

Next ==
    \/ \E size \in GridSizes : FetchGridSizeOk(size)
    \/ FetchGridSizeFail
    \/ \E c \in RequestCoords : RequestChunk(c[1], c[2])
    \/ \E cx \in ChunkXs, chunk \in ChunkValues, stale \in BOOLEAN :
           ChunkData(cx, 0, chunk, stale)
    \/ \E cx \in ChunkXs, p \in UpdatePositions, cell \in CellValues :
           CellUpdate(cx, 0, p[1], p[2], cell)
    \/ ConnectError
    \/ Disconnect
    \/ Connect

Spec == Init /\ [][Next]_vars

----------------------------------------------------------------------------
(* GridCanvas: the input handlers.  Each action is one event handler and    *)
(* the effects React runs after the render it causes.                      *)

\* what the current render's requestVisibleChunks reads
Closure == [grid |-> gridSize, zoom |-> zoom,
            offset |-> captured.offset, canvasSize |-> captured.canvasSize]

WithinPan(off) ==
    /\ -MaxPan <= off.x /\ off.x <= MaxPan
    /\ -MaxPan <= off.y /\ off.y <= MaxPan

\* commit the store a handler and its effects leave, after the messages `msgs`
\* the handler itself emitted
CommitInput(msgs, s) ==
    /\ loadedChunks' = s.loaded
    /\ requestedChunks' = s.requested
    /\ emitted' = msgs \o s.sent
    /\ outstanding' = [k \in AllKeys |-> outstanding[k] + CountGetChunk(s.sent, k)]
    /\ sinceFault' = [k \in AllKeys |-> sinceFault[k] + CountGetChunk(s.sent, k)]
    /\ cleared' = {k \in cleared : CountGetChunk(s.sent, k) = 0}

chunkToWorld(chunkCoord, localCoord) == chunkCoord * CHUNK_SIZE + localCoord

\* the cell a committed action message is for
MsgCell(msg) == [x |-> chunkToWorld(msg.cx, msg.x), y |-> chunkToWorld(msg.cy, msg.y)]

IsActionMsg(msg) == msg.type \in {"reveal_cell", "flag_cell", "chord_click"}

\* History of a two-button gesture on one cell, kept with the last canvas
\* event: phase 1 after a press on a cell with nothing held, 2 after the press
\* of the other button on that cell, 3 and 4 after the releases over it;
\* chords counts the chord_click messages for the cell emitted since phase 1,
\* others every other game action emitted since; any other event ends it.
NoGesture == [phase |-> 0, cell |-> NULL, first |-> -1, chords |-> 0, others |-> 0]

CanvasEv(g) == [kind |-> "canvas", gesture |-> g]

CurGesture == IF ev.kind = "canvas" THEN ev.gesture ELSE NoGesture

CellAt(p) ==
    LET coords == getMouseGridCoordinates(p.x, p.y, offset, zoom)
    IN  [x |-> coords.cellX, y |-> coords.cellY]

gestureAfterDown(button, p) ==
    LET c == CellAt(p)
        g == CurGesture
    IN  IF isSpaceDown \/ c.x < 0 \/ c.y < 0 THEN NoGesture
        ELSE IF button \notin {0, 2} THEN NoGesture
        ELSE IF pressedButtons = {} THEN [NoGesture EXCEPT !.phase = 1, !.cell = c]
        ELSE IF g.phase = 1 /\ button \notin pressedButtons /\ c = g.cell
        THEN [g EXCEPT !.phase = 2]
        ELSE NoGesture

gestureAfterUp(button, p, msgs) ==
    LET g == CurGesture
        chordsHere == Cardinality({i \in 1..Len(msgs) :
                          msgs[i].type = "chord_click" /\ MsgCell(msgs[i]) = g.cell})
        actions == Cardinality({i \in 1..Len(msgs) : IsActionMsg(msgs[i])})
    IN  IF g.phase \in {2, 3} /\ button \in pressedButtons /\ CellAt(p) = g.cell
        THEN [g EXCEPT !.phase = g.phase + 1,
                       !.first = IF g.phase = 2 THEN button ELSE g.first,
                       !.chords = g.chords + chordsHere,
                       !.others = g.others + (actions - chordsHere)]
        ELSE NoGesture

gestureAfterMove(p) ==
    LET g == CurGesture
    IN  IF g.phase \in 1..3 /\ ~isPanning /\ CellAt(p) = g.cell THEN g ELSE NoGesture

(* The completion screen *)

COMPLETION_RESET_THRESHOLD == 1000

\* checkCompletion(), over the state its closure reads
checkCompletion(grid, stats, minimized) ==
    IF grid = NULL \/ minimized
    THEN FALSE
    ELSE stats.revealed >= grid.width * grid.height - stats.totalMines

\* the two completion effects after a render with the given state: the check
\* effect shows the screen, the reset effect clears the minimized flag, and
\* the render that follows a cleared flag runs the check effect once more
completionEffects(grid, stats, show, minimized) ==
    LET show1 == show \/ checkCompletion(grid, stats, minimized)
        min1 == IF stats.revealed < COMPLETION_RESET_THRESHOLD /\ minimized
                THEN FALSE
                ELSE minimized
    IN  [show |-> show1 \/ checkCompletion(grid, stats, min1), minimized |-> min1]

\* the state the effects leave after a handler set grid, stats, show, minimized
CommitCompletion(grid, stats, show, minimized) ==
    LET c == completionEffects(grid, stats, show, minimized)
    IN  /\ showCompletion' = c.show
        /\ completionMinimized' = c.minimized

\* fetchGridSize resolves under the mounted GridCanvas: the render re-creates
\* calculateVisibleChunks and requestVisibleChunks, and the effect requests
GridSizeLoaded(size) ==
    /\ fetchPending
    /\ fetchPending' = FALSE
    /\ gridSize' = size
    /\ captured' = [offset |-> offset, canvasSize |-> canvasSize]
    /\ CommitInput(<<>>, requestVisibleChunks(
                             [Store EXCEPT !.grid = size],
                             [grid |-> size, zoom |-> zoom,
                              offset |-> offset, canvasSize |-> canvasSize]))
    /\ ev' = [kind |-> "fetchGridSize", ok |-> TRUE]
    /\ CommitCompletion(size, backendStats, showCompletion, completionMinimized)
    /\ UNCHANGED <<offset, zoom, canvasSize, pointerVars, timers, wheels, panStart,
                   isSocketConnected, faults, drawn, statsVars, serverVars,
                   backendStats, resetSeen>>

handleKeyDown ==
    /\ isSpaceDown' = TRUE
    /\ emitted' = <<>>
    /\ ev' = CanvasEv(NoGesture)
    /\ UNCHANGED <<storeVars, netVars, sideVars, viewVars, isPanning, lastMouse, hoverCell,
                   pressedButtons, pressedCell, timers, wheels, panStart>>

handleKeyUp ==
    /\ isSpaceDown' = FALSE
    /\ emitted' = <<>>
    /\ ev' = CanvasEv(NoGesture)
    /\ UNCHANGED <<storeVars, netVars, sideVars, viewVars, isPanning, lastMouse, hoverCell,
                   pressedButtons, pressedCell, timers, wheels, panStart>>

\* a mouse-down that reveals at once, as a commit-on-press handler would
handleMouseDown_RevealsOnPress(button, p) ==
    LET coords == getMouseGridCoordinates(p.x, p.y, offset, zoom)
    IN  /\ pressedButtons' = pressedButtons \cup {button}
        /\ IF isSpaceDown
           THEN /\ isPanning' = TRUE
                /\ lastMouse' = p
                /\ pressedCell' = pressedCell
                /\ panStart' = [base |-> [x |-> offset.x - p.x, y |-> offset.y - p.y],
                                zoom |-> zoom]
           ELSE /\ pressedCell' = IF coords.cellX >= 0 /\ coords.cellY >= 0
                                  THEN [x |-> coords.cellX, y |-> coords.cellY]
                                  ELSE pressedCell
                /\ UNCHANGED <<isPanning, lastMouse, panStart>>
        /\ emitted' = IF isSpaceDown \/ button # 0 THEN <<>>
                      ELSE <<ActionMsg("reveal_cell",
                                       worldToChunk(coords.cellX), worldToChunk(coords.cellY),
                                       worldToLocal(coords.cellX), worldToLocal(coords.cellY))>>
        /\ ev' = CanvasEv(gestureAfterDown(button, p))
        /\ UNCHANGED <<storeVars, netVars, sideVars, viewVars, isSpaceDown, hoverCell, timers, wheels>>

handleMouseDown(button, p) ==
    LET coords == getMouseGridCoordinates(p.x, p.y, offset, zoom)
    IN  /\ pressedButtons' = pressedButtons \cup {button}
        /\ IF isSpaceDown
           THEN /\ isPanning' = TRUE
                /\ lastMouse' = p
                /\ pressedCell' = pressedCell
                /\ panStart' = [base |-> [x |-> offset.x - p.x, y |-> offset.y - p.y],
                                zoom |-> zoom]
           ELSE /\ pressedCell' = IF coords.cellX >= 0 /\ coords.cellY >= 0
                                  THEN [x |-> coords.cellX, y |-> coords.cellY]
                                  ELSE pressedCell
                /\ UNCHANGED <<isPanning, lastMouse, panStart>>
        /\ emitted' = <<>>
        /\ ev' = CanvasEv(gestureAfterDown(button, p))
        /\ UNCHANGED <<storeVars, netVars, sideVars, viewVars, isSpaceDown, hoverCell, timers, wheels>>

\* a mouse-up that looks at the released button only, never at the held ones
mouseUpAction_ReleasedButtonOnly(button, coords) ==
    IF pressedCell # NULL /\ coords.cellX = pressedCell.x /\ coords.cellY = pressedCell.y
    THEN LET chunkX == worldToChunk(coords.cellX)
             chunkY == worldToChunk(coords.cellY)
             localX == worldToLocal(coords.cellX)
             localY == worldToLocal(coords.cellY)
         IN  IF button = 0
             THEN <<ActionMsg("reveal_cell", chunkX, chunkY, localX, localY)>>
             ELSE IF button = 2
             THEN <<ActionMsg("flag_cell", chunkX, chunkY, localX, localY)>>
             ELSE <<>>
    ELSE <<>>

\* a mouse-up that chords as soon as either button is held
mouseUpAction_EitherButton(button, coords) ==
    IF pressedCell # NULL /\ coords.cellX = pressedCell.x /\ coords.cellY = pressedCell.y
    THEN LET chunkX == worldToChunk(coords.cellX)
             chunkY == worldToChunk(coords.cellY)
             localX == worldToLocal(coords.cellX)
             localY == worldToLocal(coords.cellY)
             currentPressedButtons == pressedButtons \cup {button}
         IN  IF 0 \in currentPressedButtons \/ 2 \in currentPressedButtons
             THEN <<ActionMsg("chord_click", chunkX, chunkY, localX, localY)>>
             ELSE <<>>
    ELSE <<>>

\* the game action a mouse-up commits: the messages it emits
mouseUpAction(button, coords) ==
    IF pressedCell # NULL /\ coords.cellX = pressedCell.x /\ coords.cellY = pressedCell.y
    THEN LET chunkX == worldToChunk(coords.cellX)
             chunkY == worldToChunk(coords.cellY)
             localX == worldToLocal(coords.cellX)
             localY == worldToLocal(coords.cellY)
             currentPressedButtons == pressedButtons \cup {button}
         IN  IF 0 \in currentPressedButtons /\ 2 \in currentPressedButtons
             THEN <<ActionMsg("chord_click", chunkX, chunkY, localX, localY)>>
             ELSE IF button = 0
             THEN <<ActionMsg("reveal_cell", chunkX, chunkY, localX, localY)>>
             ELSE IF button = 2
             THEN <<ActionMsg("flag_cell", chunkX, chunkY, localX, localY)>>
             ELSE <<>>
    ELSE <<>>

\* a refresh after a reveal only, as if the chord branch had no setTimeout
schedulesRefresh_RevealOnly(msgs) ==
    \E i \in 1..Len(msgs) : msgs[i].type = "reveal_cell"

\* chordClick and revealAndRefresh are followed by a setTimeout(requestVisibleChunks)
schedulesRefresh(msgs) ==
    \E i \in 1..Len(msgs) : msgs[i].type \in {"chord_click", "reveal_cell"}

\* a mouse-up whose panning branch returns before the held set and the
\* pressed cell are reset
handleMouseUp_PanningReturnsFirst(button, p) ==
    LET coords == getMouseGridCoordinates(p.x, p.y, offset, zoom)
        msgs == IF isPanning THEN <<>> ELSE mouseUpAction(button, coords)
    IN  /\ schedulesRefresh(msgs) => Len(timers) < MaxTimers
        /\ pressedButtons' = IF isPanning THEN pressedButtons ELSE pressedButtons \ {button}
        /\ pressedCell' = IF isPanning THEN pressedCell ELSE NULL
        /\ IF isPanning
           THEN isPanning' = FALSE /\ lastMouse' = NULL /\ panStart' = NULL
           ELSE UNCHANGED <<isPanning, lastMouse, panStart>>
        /\ timers' = IF schedulesRefresh(msgs) THEN Append(timers, Closure) ELSE timers
        /\ emitted' = msgs
        /\ ev' = CanvasEv(gestureAfterUp(button, p, msgs))
        /\ UNCHANGED <<storeVars, netVars, sideVars, viewVars, isSpaceDown, hoverCell, wheels>>

\* a mouse-up that clears the pressed cell only when it commits an action
handleMouseUp_ClearsOnCommitOnly(button, p) ==
    LET coords == getMouseGridCoordinates(p.x, p.y, offset, zoom)
        msgs == IF isPanning THEN <<>> ELSE mouseUpAction(button, coords)
    IN  /\ schedulesRefresh(msgs) => Len(timers) < MaxTimers
        /\ pressedButtons' = pressedButtons \ {button}
        /\ pressedCell' = IF msgs = <<>> THEN pressedCell ELSE NULL
        /\ IF isPanning
           THEN isPanning' = FALSE /\ lastMouse' = NULL /\ panStart' = NULL
           ELSE UNCHANGED <<isPanning, lastMouse, panStart>>
        /\ timers' = IF schedulesRefresh(msgs) THEN Append(timers, Closure) ELSE timers
        /\ emitted' = msgs
        /\ ev' = CanvasEv(gestureAfterUp(button, p, msgs))
        /\ UNCHANGED <<storeVars, netVars, sideVars, viewVars, isSpaceDown, hoverCell, wheels>>

\* a mouse-up that evaluates the pressed cell before it looks at isPanning
handleMouseUp_CommitsWhilePanning(button, p) ==
    LET coords == getMouseGridCoordinates(p.x, p.y, offset, zoom)
        msgs == mouseUpAction(button, coords)
    IN  /\ schedulesRefresh(msgs) => Len(timers) < MaxTimers
        /\ pressedButtons' = pressedButtons \ {button}
        /\ pressedCell' = NULL
        /\ IF isPanning
           THEN isPanning' = FALSE /\ lastMouse' = NULL /\ panStart' = NULL
           ELSE UNCHANGED <<isPanning, lastMouse, panStart>>
        /\ timers' = IF schedulesRefresh(msgs) THEN Append(timers, Closure) ELSE timers
        /\ emitted' = msgs
        /\ ev' = CanvasEv(gestureAfterUp(button, p, msgs))
        /\ UNCHANGED <<storeVars, netVars, sideVars, viewVars, isSpaceDown, hoverCell, wheels>>

\* a mouse-up that also reveals the cell in its own cache when it commits a
\* reveal, as an optimistic client would
handleMouseUp_RevealsLocally(button, p) ==
    LET coords == getMouseGridCoordinates(p.x, p.y, offset, zoom)
        msgs == IF isPanning THEN <<>> ELSE mouseUpAction(button, coords)
        s == IF msgs # <<>> /\ msgs[1].type = "reveal_cell"
             THEN updateCell(Store, msgs[1].cx, msgs[1].cy, msgs[1].x, msgs[1].y,
                             Cell(TRUE, FALSE))
             ELSE Store
    IN  /\ schedulesRefresh(msgs) => Len(timers) < MaxTimers
        /\ pressedButtons' = pressedButtons \ {button}
        /\ pressedCell' = NULL
        /\ IF isPanning
           THEN isPanning' = FALSE /\ lastMouse' = NULL /\ panStart' = NULL
           ELSE UNCHANGED <<isPanning, lastMouse, panStart>>
        /\ timers' = IF schedulesRefresh(msgs) THEN Append(timers, Closure) ELSE timers
        /\ emitted' = msgs
        /\ ev' = CanvasEv(gestureAfterUp(button, p, msgs))
        /\ loadedChunks' = s.loaded
        /\ UNCHANGED <<requestedChunks, gridSize, fetchPending>>
        /\ UNCHANGED <<netVars, sideVars, viewVars, isSpaceDown, hoverCell, wheels>>

handleMouseUp(button, p) ==
    LET coords == getMouseGridCoordinates(p.x, p.y, offset, zoom)
        msgs == IF isPanning THEN <<>> ELSE mouseUpAction(button, coords)
    IN  /\ schedulesRefresh(msgs) => Len(timers) < MaxTimers
        /\ pressedButtons' = pressedButtons \ {button}
        /\ pressedCell' = NULL
        /\ IF isPanning
           THEN isPanning' = FALSE /\ lastMouse' = NULL /\ panStart' = NULL
           ELSE UNCHANGED <<isPanning, lastMouse, panStart>>
        /\ timers' = IF schedulesRefresh(msgs) THEN Append(timers, Closure) ELSE timers
        /\ emitted' = msgs
        /\ ev' = CanvasEv(gestureAfterUp(button, p, msgs))
        /\ UNCHANGED <<storeVars, netVars, sideVars, viewVars, isSpaceDown, hoverCell, wheels>>

\* a pan step that never moves lastMouse on from the press position
handleMouseMove_KeepsLastMouse(p) ==
    LET coords == getMouseGridCoordinates(p.x, p.y, offset, zoom)
        pans == isPanning /\ lastMouse # NULL
        newOffset == [x |-> offset.x + (p.x - lastMouse.x),
                      y |-> offset.y + (p.y - lastMouse.y)]
    IN  /\ pans => WithinPan(newOffset)
        /\ hoverCell' =
             IF ~isPanning \/ lastMouse = NULL
             THEN IF /\ gridSize # NULL
                     /\ isWithinGridBounds(coords.cellX, coords.cellY,
                                           gridSize.width, gridSize.height)
                  THEN [x |-> coords.cellX, y |-> coords.cellY]
                  ELSE NULL
             ELSE hoverCell
        /\ IF pans
           THEN /\ offset' = newOffset
                /\ lastMouse' = lastMouse
                \* the effect on [offset, ...] runs with the memoized closure
                /\ CommitInput(<<>>, requestVisibleChunks(Store, Closure))
           ELSE /\ UNCHANGED <<offset, lastMouse>>
                /\ CommitInput(<<>>, Store)
        /\ ev' = CanvasEv(gestureAfterMove(p))
        /\ UNCHANGED <<gridSize, fetchPending, isSocketConnected, faults, sideVars, zoom, canvasSize,
                       captured, isPanning, isSpaceDown, pressedButtons, pressedCell,
                       timers, wheels, panStart>>

handleMouseMove(p) ==
    LET coords == getMouseGridCoordinates(p.x, p.y, offset, zoom)
        pans == isPanning /\ lastMouse # NULL
        newOffset == [x |-> offset.x + (p.x - lastMouse.x),
                      y |-> offset.y + (p.y - lastMouse.y)]
    IN  /\ pans => WithinPan(newOffset)
        /\ hoverCell' =
             IF ~isPanning \/ lastMouse = NULL
             THEN IF /\ gridSize # NULL
                     /\ isWithinGridBounds(coords.cellX, coords.cellY,
                                           gridSize.width, gridSize.height)
                  THEN [x |-> coords.cellX, y |-> coords.cellY]
                  ELSE NULL
             ELSE hoverCell
        /\ IF pans
           THEN /\ offset' = newOffset
                /\ lastMouse' = p
                \* the effect on [offset, ...] runs with the memoized closure
                /\ CommitInput(<<>>, requestVisibleChunks(Store, Closure))
           ELSE /\ UNCHANGED <<offset, lastMouse>>
                /\ CommitInput(<<>>, Store)
        /\ ev' = CanvasEv(gestureAfterMove(p))
        /\ UNCHANGED <<gridSize, fetchPending, isSocketConnected, faults, sideVars, zoom, canvasSize,
                       captured, isPanning, isSpaceDown, pressedButtons, pressedCell,
                       timers, wheels, panStart>>

\* z >= minZoom, the minimum handleWheel computes from the canvas size:
\* Math.max(canvasSize.width / (CHUNK_SIZE * MIN_VISIBLE_CHUNKS * CELL_SIZE),
\*          canvasSize.height / (same), ZOOM_LIMITS.MIN); z in thousandths
atLeastMinZoom(z, canvas) ==
    /\ z * (CHUNK_SIZE * MIN_VISIBLE_CHUNKS * CELL_SIZE) >= canvas.width * ZoomUnit
    /\ z * (CHUNK_SIZE * MIN_VISIBLE_CHUNKS * CELL_SIZE) >= canvas.height * ZoomUnit
    /\ z >= ZOOM_LIMITS.MIN

\* a wheel handler that scales about the canvas origin, not about the pointer
handleWheel_ZoomsAboutOrigin(deltaY, p) ==
    LET newZoom == clampZoom(zoom - deltaY * ZoomPerDelta)
        \* worldX = (mouseX - offset.x) / zoom; newOffsetX = mouseX - worldX * newZoom
        newOffset == [x |-> (offset.x * newZoom) \div zoom,
                      y |-> (offset.y * newZoom) \div zoom]
        newCaptured == IF newZoom # zoom
                       THEN [offset |-> newOffset, canvasSize |-> canvasSize]
                       ELSE captured
    IN  /\ wheels < MaxWheels
        /\ wheels' = wheels + 1
        \* only the events whose new offset is a whole number of pixels
        /\ ((p.x - offset.x) * newZoom) % zoom = 0
        /\ ((p.y - offset.y) * newZoom) % zoom = 0
        /\ WithinPan(newOffset)
        /\ zoom' = newZoom
        /\ offset' = newOffset
        /\ captured' = newCaptured
        /\ CommitInput(<<>>, requestVisibleChunks(
                                 Store,
                                 [grid |-> gridSize, zoom |-> newZoom,
                                  offset |-> newCaptured.offset,
                                  canvasSize |-> newCaptured.canvasSize]))
        /\ ev' = CanvasEv(NoGesture)
        \* a wheel event is no mouse-move: the pan is no longer a sequence of moves
        /\ panStart' = NULL
        /\ UNCHANGED <<gridSize, fetchPending, isSocketConnected, faults, sideVars, canvasSize,
                       pointerVars, timers>>

handleWheel(deltaY, p) ==
    LET newZoom == clampZoom(zoom - deltaY * ZoomPerDelta)
        \* worldX = (mouseX - offset.x) / zoom; newOffsetX = mouseX - worldX * newZoom
        newOffset == [x |-> p.x - ((p.x - offset.x) * newZoom) \div zoom,
                      y |-> p.y - ((p.y - offset.y) * newZoom) \div zoom]
        newCaptured == IF newZoom # zoom
                       THEN [offset |-> newOffset, canvasSize |-> canvasSize]
                       ELSE captured
    IN  /\ wheels < MaxWheels
        /\ wheels' = wheels + 1
        \* only the events whose new offset is a whole number of pixels
        /\ ((p.x - offset.x) * newZoom) % zoom = 0
        /\ ((p.y - offset.y) * newZoom) % zoom = 0
        /\ WithinPan(newOffset)
        /\ zoom' = newZoom
        /\ offset' = newOffset
        /\ captured' = newCaptured
        /\ CommitInput(<<>>, requestVisibleChunks(
                                 Store,
                                 [grid |-> gridSize, zoom |-> newZoom,
                                  offset |-> newCaptured.offset,
                                  canvasSize |-> newCaptured.canvasSize]))
        /\ ev' = CanvasEv(NoGesture)
        \* a wheel event is no mouse-move: the pan is no longer a sequence of moves
        /\ panStart' = NULL
        /\ UNCHANGED <<gridSize, fetchPending, isSocketConnected, faults, sideVars, canvasSize,
                       pointerVars, timers>>

\* the oldest setTimeout callback runs the requestVisibleChunks it closed over
TimerFires ==
    /\ Len(timers) > 0
    /\ timers' = Tail(timers)
    /\ CommitInput(<<>>, requestVisibleChunks(Store, Head(timers)))
    \* a timer is no input event: a gesture under way goes on
    /\ ev' = CanvasEv(IF CurGesture.phase \in 1..3 THEN CurGesture ELSE NoGesture)
    /\ UNCHANGED <<gridSize, fetchPending, isSocketConnected, faults, sideVars, viewVars,
                   pointerVars, wheels, panStart>>

NextInput ==
    \/ \E size \in InputGridSizes : GridSizeLoaded(size)
    \/ handleKeyDown
    \/ handleKeyUp
    \/ \E b \in Buttons, p \in MousePoints : handleMouseDown(b, p)
    \/ \E b \in ReleasedButtons, p \in MousePoints : handleMouseUp(b, p)
    \/ \E p \in MousePoints : handleMouseMove(p)
    \/ \E d \in WheelDeltas, p \in MousePoints : handleWheel(d, p)
    \/ TimerFires

SpecInput == Init /\ [][NextInput]_vars

----------------------------------------------------------------------------
(* The render effect's pass over the visible cells *)

\* a render step that grows with the zoom instead of with its inverse
getCellRenderStep_FinerWhenZoomedOut(z) ==
    IF 10 * z < 2 * ZoomUnit THEN 1
    ELSE IF 10 * z < 4 * ZoomUnit THEN 2
    ELSE IF 10 * z < 7 * ZoomUnit THEN 4
    ELSE 8

getCellRenderStep(z) ==
    IF 10 * z < 2 * ZoomUnit THEN 8
    ELSE IF 10 * z < 4 * ZoomUnit THEN 4
    ELSE IF 10 * z < 7 * ZoomUnit THEN 2
    ELSE 1

\* the fillStyle of a cell: pressed wins over the cell's own state
cellFill(cell, isPressed) ==
    IF isPressed THEN "pressed"
    ELSE IF cell.revealed THEN (IF cell.hasMine THEN "mine" ELSE "revealed")
    ELSE "unrevealed"

\* what is drawn on top of the fill: the three cases inside `if (cellStep === 1)`
cellGlyph(cell, cellStep) ==
    IF cellStep # 1 THEN "none"
    ELSE IF cell.flagged /\ ~cell.revealed THEN "flag"
    ELSE IF cell.revealed /\ cell.hasMine THEN "mine"
    ELSE IF cell.revealed /\ ~cell.hasMine /\ cell.adjacentMines > 0 THEN "number"
    ELSE "none"

\* the cells one pass of the render effect draws for the viewport c, the
\* cache `loaded` and the pressed cell: every cellStep-th visible cell whose
\* chunk is cached and holds the cell
renderCells(c, loaded, pressed) ==
    LET b == getVisibleBounds(c)
        cellStep == getCellRenderStep(c.zoom)
        xs == {x \in b.left..(b.right - 1) :
                  (x - b.left) % cellStep = 0 /\ worldToLocal(x) < ChunkSide}
        ys == {y \in b.top..(b.bottom - 1) :
                  (y - b.top) % cellStep = 0 /\ worldToLocal(y) < ChunkSide}
        key(x, y) == createChunkKey(worldToChunk(x), worldToChunk(y))
        cellAt(x, y) == loaded[key(x, y)][worldToLocal(y) + 1][worldToLocal(x) + 1]
    IN  {[x |-> d[1], y |-> d[2],
          fill |-> cellFill(cellAt(d[1], d[2]), pressed = [x |-> d[1], y |-> d[2]]),
          glyph |-> cellGlyph(cellAt(d[1], d[2]), cellStep)] :
            d \in {e \in xs \X ys : key(e[1], e[2]) \in DOMAIN loaded}}

\* the pass of the current render
renderPass ==
    renderCells([grid |-> gridSize, zoom |-> zoom, offset |-> offset,
                 canvasSize |-> canvasSize], loadedChunks, pressedCell)

----------------------------------------------------------------------------
(* The coordinate and zoom functions of constants/game.ts, applied one call
   at a time: the history starts at a call and the step returns its result *)

PureCalls ==
    {[kind |-> "call", fn |-> "clampZoom", arg |-> z] : z \in -MaxZoomInput..MaxZoomInput}
    \cup {[kind |-> "call", fn |-> "worldToChunk", arg |-> c] : c \in -MaxWorld..MaxWorld}

\* getBufferZoneSize is called with the zoom of the store, which is positive
BufferCalls ==
    {[kind |-> "call", fn |-> "getBufferZoneSize", arg |-> z] : z \in 0..MaxZoomInput}

\* the viewports calculateVisibleChunks is called with: grids whose sides are
\* and are not multiples of CHUNK_SIZE, zooms on both sides of every buffer
\* step, offsets that leave the grid's origin on screen, that scroll it away
\* and that scroll the whole grid away, and two windows
ViewGrids ==
    GridSizes \cup {[width |-> 2 * CHUNK_SIZE, height |-> 2 * CHUNK_SIZE]}

ViewZooms == {ZOOM_LIMITS.MIN, ZoomUnit \div 2, ZoomUnit, 2 * ZoomUnit, ZOOM_LIMITS.MAX}

ViewOffsets ==
    {-(2 * CHUNK_SIZE * CELL_SIZE), -((3 * CHUNK_SIZE * CELL_SIZE) \div 2),
     -(CHUNK_SIZE * CELL_SIZE), 0, (CHUNK_SIZE * CELL_SIZE) \div 2,
     2 * CHUNK_SIZE * CELL_SIZE}

ViewCanvases ==
    {InitialCanvas,
     [width |-> 15 * CHUNK_SIZE, height |-> 15 * CHUNK_SIZE]}

ViewCalls ==
    {[kind |-> "call", fn |-> "calculateVisibleChunks",
      arg |-> [grid |-> g, zoom |-> z, offset |-> [x |-> ox, y |-> oy], canvasSize |-> cs]] :
        g \in ViewGrids, z \in ViewZooms, ox \in ViewOffsets, oy \in ViewOffsets,
        cs \in ViewCanvases}

\* getCellRenderStep is called with the zoom of the render
StepCalls ==
    {[kind |-> "call", fn |-> "getCellRenderStep", arg |-> z] : z \in 0..MaxZoomInput}

\* zooms on both sides of every step of getCellRenderStep, and the default
RenderZooms ==
    {((2 * ZoomUnit) \div 10) - 1, (2 * ZoomUnit) \div 10,
     ((4 * ZoomUnit) \div 10) - 1, (4 * ZoomUnit) \div 10,
     ((7 * ZoomUnit) \div 10) - 1, (7 * ZoomUnit) \div 10, DEFAULT_ZOOM}

\* cells of the chunks a pass draws: unrevealed, flagged, a revealed mine, a
\* revealed cell next to three mines, a revealed cell next to none
RenderCellValues ==
    {[revealed |-> FALSE, hasMine |-> FALSE, adjacentMines |-> 0, flagged |-> FALSE],
     [revealed |-> FALSE, hasMine |-> FALSE, adjacentMines |-> 0, flagged |-> TRUE],
     [revealed |-> TRUE, hasMine |-> TRUE, adjacentMines |-> 0, flagged |-> FALSE],
     [revealed |-> TRUE, hasMine |-> FALSE, adjacentMines |-> 3, flagged |-> FALSE],
     [revealed |-> TRUE, hasMine |-> FALSE, adjacentMines |-> 0, flagged |-> FALSE]}

\* one pass of the render effect: the viewport, the keys cached, the cell the
\* cached chunks are filled with, and whether cell (0, 0) is pressed
RenderCalls ==
    {[kind |-> "call", fn |-> "render",
      arg |-> [view |-> [grid |-> g, zoom |-> z, offset |-> [x |-> 0, y |-> 0],
                         canvasSize |-> InitialCanvas],
               cached |-> keys, cell |-> cell, pressed |-> pressed]] :
        g \in InputGridSizes, z \in RenderZooms, keys \in SUBSET AllKeys,
        cell \in RenderCellValues, pressed \in BOOLEAN}

InitPure ==
    \/ \E call \in PureCalls : InitState(InitialCanvas, call)
    \/ \E call \in BufferCalls : InitState(InitialCanvas, call)
    \/ \E call \in ViewCalls : InitState(InitialCanvas, call)
    \/ \E call \in StepCalls : InitState(InitialCanvas, call)
    \/ \E call \in RenderCalls : InitState(InitialCanvas, call)

\* clampZoom(z), and clampZoom applied to its own result
CallClampZoom ==
    /\ ev.kind = "call"
    /\ ev.fn = "clampZoom"
    /\ ev' = [kind |-> "return", fn |-> ev.fn, arg |-> ev.arg,
              result |-> <<clampZoom(ev.arg), clampZoom(clampZoom(ev.arg))>>]
    /\ UNCHANGED <<storeVars, netVars, inputVars, sideVars, emitted>>

\* worldToChunk(c) and worldToLocal(c), as handleMouseUp computes them for a cell
CallWorldToChunk ==
    /\ ev.kind = "call"
    /\ ev.fn = "worldToChunk"
    /\ ev' = [kind |-> "return", fn |-> ev.fn, arg |-> ev.arg,
              result |-> <<worldToChunk(ev.arg), worldToLocal(ev.arg)>>]
    /\ UNCHANGED <<storeVars, netVars, inputVars, sideVars, emitted>>

\* getBufferZoneSize(zoom) and getBufferZoneSize of the next larger zoom
CallGetBufferZoneSize ==
    /\ ev.kind = "call"
    /\ ev.fn = "getBufferZoneSize"
    /\ ev' = [kind |-> "return", fn |-> ev.fn, arg |-> ev.arg,
              result |-> <<getBufferZoneSize(ev.arg), getBufferZoneSize(ev.arg + 1)>>]
    /\ UNCHANGED <<storeVars, netVars, inputVars, sideVars, emitted>>

\* calculateVisibleChunks() of one render: the visible cells, the chunk
\* rectangle before the buffer, the final rectangle and the returned list
CallCalculateVisibleChunks ==
    /\ ev.kind = "call"
    /\ ev.fn = "calculateVisibleChunks"
    /\ ev' = [kind |-> "return", fn |-> ev.fn, arg |-> ev.arg,
              result |-> [cells |-> getVisibleBounds(ev.arg),
                          visible |-> visibleChunkBounds(ev.arg),
                          final |-> visibleChunkRect(ev.arg),
                          chunks |-> calculateVisibleChunks(ev.arg)]]
    /\ UNCHANGED <<storeVars, netVars, inputVars, sideVars, emitted>>

\* getCellRenderStep(z), and the step one thousandth of zoom further in
CallGetCellRenderStep ==
    /\ ev.kind = "call"
    /\ ev.fn = "getCellRenderStep"
    /\ ev' = [kind |-> "return", fn |-> ev.fn, arg |-> ev.arg,
              result |-> <<getCellRenderStep(ev.arg), getCellRenderStep(ev.arg + 1)>>]
    /\ UNCHANGED <<storeVars, netVars, inputVars, sideVars, emitted>>

\* one pass of the render effect: its cellStep and the cells it draws
CallRender ==
    /\ ev.kind = "call"
    /\ ev.fn = "render"
    /\ ev' = [kind |-> "return", fn |-> ev.fn, arg |-> ev.arg,
              result |-> [cellStep |-> getCellRenderStep(ev.arg.view.zoom),
                          cells |-> renderCells(
                                        ev.arg.view,
                                        [k \in ev.arg.cached |-> UniformChunk(ev.arg.cell)],
                                        IF ev.arg.pressed THEN [x |-> 0, y |-> 0]
                                        ELSE NULL)]]
    /\ UNCHANGED <<storeVars, netVars, inputVars, sideVars, emitted>>

NextPure ==
    \/ CallClampZoom
    \/ CallWorldToChunk
    \/ CallGetBufferZoneSize
    \/ CallCalculateVisibleChunks
    \/ CallGetCellRenderStep
    \/ CallRender

SpecPure == InitPure /\ [][NextPure]_vars

----------------------------------------------------------------------------
(* The canvas at the edges: a wide window over a grid of one chunk, with a
   pointer position to the right of the grid and wheel events that reach the
   lower zoom limit *)

----------------------------------------------------------------------------
(* Polling of the read-only server aggregates *)

\* const maxRetries = 3
maxRetries == 3

\* a fetchStats that polls only while the socket is connected
fetchStatsIssues_ConnectedOnly(connected, retries) == connected

\* fetchStats gets past `if (!isSocketConnected && retryCount >= maxRetries) return`
fetchStatsIssues(connected, retries) == ~(~connected /\ retries >= maxRetries)

\* one tick of setInterval(fetchStats, STATS_POLL_INTERVAL): the four fetches
\* of Promise.all are one poll
StatsTick ==
    LET issues == fetchStatsIssues(isSocketConnected, retryCount)
    IN  /\ issues => statsInFlight < MaxStatsInFlight
        /\ statsInFlight' = IF issues THEN statsInFlight + 1 ELSE statsInFlight
        /\ emitted' = <<>>
        /\ ev' = [kind |-> "stats_tick", issued |-> issues,
                  connected |-> isSocketConnected, retries |-> retryCount]
        /\ UNCHANGED <<storeVars, netVars, inputVars, drawn, retryCount, serverVars, completionVars>>

\* the grid the polled statistics are about
StatsGrid == [width |-> 2 * CHUNK_SIZE, height |-> CHUNK_SIZE]

\* the statistics a poll may bring: a fresh board, a board in play just below
\* and at the reset threshold, a completed board, and a completed board with
\* fewer safe cells than the reset threshold
PolledStats ==
    {[revealed |-> 0, totalMines |-> 3000],
     [revealed |-> COMPLETION_RESET_THRESHOLD - 1, totalMines |-> 3000],
     [revealed |-> COMPLETION_RESET_THRESHOLD, totalMines |-> 3000],
     [revealed |-> StatsGrid.width * StatsGrid.height - 3000, totalMines |-> 3000],
     [revealed |-> 500, totalMines |-> StatsGrid.width * StatsGrid.height - 500]}

\* a poll of the running effect settles: all four responses parsed
\* (setBackendStats(newStats), retryCount = 0, and the completion effects
\* run), or a fetch or a parse failed (retryCount++)
StatsSettles(ok) ==
    /\ statsInFlight > 0
    /\ ~ok => retryCount < MaxFailedPolls
    /\ statsInFlight' = statsInFlight - 1
    /\ retryCount' = IF ok THEN 0 ELSE retryCount + 1
    /\ IF ok
       THEN \E stats \in PolledStats :
                /\ backendStats' = stats
                /\ resetSeen' = (resetSeen \/ stats.revealed < COMPLETION_RESET_THRESHOLD)
                /\ CommitCompletion(gridSize, stats, showCompletion, completionMinimized)
       ELSE UNCHANGED completionVars
    /\ emitted' = <<>>
    /\ ev' = [kind |-> "stats_result", ok |-> ok]
    /\ UNCHANGED <<storeVars, netVars, inputVars, drawn, serverVars>>

\* the click on "Minimize & Explore": setShowCompletion(false),
\* setCompletionMinimized(true), and the effects of the render that follows
MinimizeCompletion ==
    /\ showCompletion
    /\ CommitCompletion(gridSize, backendStats, FALSE, TRUE)
    /\ resetSeen' = (backendStats.revealed < COMPLETION_RESET_THRESHOLD)
    /\ emitted' = <<>>
    /\ ev' = [kind |-> "minimize"]
    /\ UNCHANGED <<storeVars, netVars, inputVars, drawn, statsVars, serverVars, backendStats>>

NextStats ==
    \/ StatsTick
    \/ \E ok \in BOOLEAN : StatsSettles(ok)
    \/ Connect
    \/ Disconnect
    \/ ConnectError

SpecStats == Init /\ [][NextStats]_vars

\* the polls, the grid size arriving, and the player minimizing the screen
NextCompletion ==
    \/ \E size \in InputGridSizes : GridSizeLoaded(size)
    \/ StatsTick
    \/ \E ok \in BOOLEAN : StatsSettles(ok)
    \/ MinimizeCompletion
    \/ Connect

SpecCompletion == Init /\ [][NextCompletion]_vars

----------------------------------------------------------------------------
(* Resize and redraw, and a window small enough that the visible chunk set *)
(* depends on the viewport                                                 *)

\* window 'resize': setCanvasSize({ width: innerWidth, height: innerHeight });
\* the new object re-runs the effect on [offset, zoom, canvasSize,
\* requestVisibleChunks], which calls the memoized requestVisibleChunks
handleResize(size) ==
    /\ canvasSize' = size
    /\ CommitInput(<<>>, requestVisibleChunks(Store, Closure))
    /\ ev' = CanvasEv(IF CurGesture.phase \in 1..3 THEN CurGesture ELSE NoGesture)
    /\ UNCHANGED <<gridSize, fetchPending, isSocketConnected, faults, sideVars, offset, zoom,
                   captured, pointerVars, timers, wheels, panStart>>

\* a render pass that resets the pressed cell once its highlight is drawn
Redraw_ReleasesPress ==
    /\ drawn' = renderPass
    /\ pressedCell' = NULL
    /\ UNCHANGED <<storeVars, netVars, emitted, ev, viewVars, isPanning, lastMouse,
                   isSpaceDown, hoverCell, pressedButtons, timers, wheels, panStart,
                   statsVars, serverVars, completionVars>>

\* the render effect: clear the canvas, fill the visible cells, draw the
\* rulers and the overlay; it sets no state and calls nothing of the store
Redraw ==
    /\ drawn' = renderPass
    /\ UNCHANGED <<storeVars, netVars, emitted, ev, inputVars, statsVars, serverVars,
                   completionVars>>

ViewCanvas == [width |-> 350, height |-> 300]

\* window sizes a resize reports
ViewWindowSizes == {ViewCanvas, InitialCanvas}

\* pointer positions 20 px apart, both over the grid
ViewPoints == {[x |-> 20, y |-> 20], [x |-> 40, y |-> 20]}

\* e.button of the presses and releases: the primary button
ViewButtons == {0}

\* e.deltaY: zoom out by one (clamped at ZOOM_LIMITS.MIN)
ViewWheelDeltas == {1000}

\* the chunk the server answers a get_chunk with
ViewChunks == {UniformChunk(Cell(TRUE, FALSE))}

\* the chunk columns whose get_chunk the server answers in time
ViewAnswered == {0}

InitView == InitState(ViewCanvas, [kind |-> "init"])

NextView ==
    \/ \E size \in InputGridSizes : GridSizeLoaded(size)
    \/ handleKeyDown
    \/ handleKeyUp
    \/ \E b \in ViewButtons, p \in ViewPoints : handleMouseDown(b, p)
    \/ \E b \in ViewButtons, p \in ViewPoints : handleMouseUp(b, p)
    \/ \E p \in ViewPoints : handleMouseMove(p)
    \/ \E d \in ViewWheelDeltas, p \in ViewPoints : handleWheel(d, p)
    \/ \E size \in ViewWindowSizes : handleResize(size)
    \/ TimerFires
    \/ \E cx \in ViewAnswered, chunk \in ViewChunks : ChunkData(cx, 0, chunk, FALSE)

SpecView == InitView /\ [][NextView]_vars

\* redraws between the events of the default window: the grid size arrives,
\* chunks arrive, cells are updated, pressed and released
NextDraw ==
    \/ \E size \in InputGridSizes : GridSizeLoaded(size)
    \/ \E b \in ViewButtons, p \in MousePoints : handleMouseDown(b, p)
    \/ \E b \in ViewButtons, p \in MousePoints : handleMouseUp(b, p)
    \/ \E p \in MousePoints : handleMouseMove(p)
    \/ TimerFires
    \/ \E cx \in ChunkXs, chunk \in ViewChunks : ChunkData(cx, 0, chunk, FALSE)
    \/ \E p \in UpdatePositions, cell \in CellValues : CellUpdate(0, 0, p[1], p[2], cell)
    \/ Redraw

SpecDraw == Init /\ [][NextDraw]_vars

\* committed actions next to the inbound messages for the chunk under the pointer
NextCommit ==
    \/ \E size \in InputGridSizes : GridSizeLoaded(size)
    \/ \E b \in Buttons, p \in MousePoints : handleMouseDown(b, p)
    \/ \E b \in Buttons, p \in MousePoints : handleMouseUp(b, p)
    \/ TimerFires
    \/ \E chunk \in ViewChunks : ChunkData(0, 0, chunk, FALSE)
    \/ \E p \in UpdatePositions, cell \in CellValues : CellUpdate(0, 0, p[1], p[2], cell)
    \/ \E cx \in ChunkXs : RequestChunk(cx, 0)

SpecCommit == Init /\ [][NextCommit]_vars


\* window.innerWidth x window.innerHeight of a wide window
EdgeCanvas == [width |-> 2000, height |-> 600]

EdgeGridSizes == {[width |-> CHUNK_SIZE, height |-> CHUNK_SIZE]}

\* at the initial viewport: over cell (2, 2), and over cell (100, 2), the
\* first column to the right of the grid
EdgePoints == {[x |-> 20, y |-> 20], [x |-> 10 * CHUNK_SIZE, y |-> 20]}

\* e.deltaY: zoom in by a half, zoom out by one (clamped at ZOOM_LIMITS.MIN)
EdgeWheelDeltas == {-500, 1000}

InitEdge == InitState(EdgeCanvas, [kind |-> "init"])

NextEdge ==
    \/ \E size \in EdgeGridSizes : GridSizeLoaded(size)
    \/ handleKeyDown
    \/ handleKeyUp
    \/ \E b \in Buttons, p \in EdgePoints : handleMouseDown(b, p)
    \/ \E b \in ReleasedButtons, p \in EdgePoints : handleMouseUp(b, p)
    \/ \E p \in EdgePoints : handleMouseMove(p)
    \/ \E d \in EdgeWheelDeltas, p \in EdgePoints : handleWheel(d, p)
    \/ TimerFires

SpecEdge == InitEdge /\ [][NextEdge]_vars

----------------------------------------------------------------------------
(* The server and the socket between it and the store: the server owns the *)
(* authoritative chunks, broadcasts every change of a cell as a            *)
(* cell_update and answers a get_chunk with the chunk as it is when it     *)
(* answers; one socket.io connection delivers the messages in the order    *)
(* they were sent                                                          *)

\* positions (x, y) of the cells the server changes: two cells of row 0
ServerPositions == {<<0, 0>>, <<ChunkSide - 1, 0>>}

\* the server's chunk with the cell at (x, y) set
serverSetCell(chunk, x, y, cell) == [chunk EXCEPT ![y + 1][x + 1] = cell]

\* chunk_data messages for the key among the messages msgs
RECURSIVE CountChunkData(_, _)
CountChunkData(msgs, key) ==
    IF msgs = <<>>
    THEN 0
    ELSE (IF Head(msgs).type = "chunk_data"
             /\ createChunkKey(Head(msgs).cx, Head(msgs).cy) = key
          THEN 1 ELSE 0) + CountChunkData(Tail(msgs), key)

\* a player's action changes a cell on the server, which broadcasts it
ServerUpdate(cx, cy, x, y, cell) ==
    LET key == createChunkKey(cx, cy)
    IN  /\ Len(wire) < MaxWire
        /\ serverChunks[key][y + 1][x + 1] # cell
        /\ serverChunks' = [serverChunks EXCEPT ![key] = serverSetCell(@, x, y, cell)]
        /\ wire' = Append(wire, [type |-> "cell_update", cx |-> cx, cy |-> cy,
                                 x |-> x, y |-> y, cell |-> cell])
        /\ emitted' = <<>>
        /\ ev' = [kind |-> "server_update", cx |-> cx, cy |-> cy]
        /\ UNCHANGED <<storeVars, netVars, inputVars, drawn, statsVars, dropped,
                       completionVars>>

\* the server answers a get_chunk it has not answered yet
ServerAnswer(cx, cy) ==
    LET key == createChunkKey(cx, cy)
    IN  /\ Len(wire) < MaxWire
        /\ outstanding[key] > CountChunkData(wire, key)
        /\ wire' = Append(wire, [type |-> "chunk_data", cx |-> cx, cy |-> cy,
                                 chunk |-> serverChunks[key]])
        /\ emitted' = <<>>
        /\ ev' = [kind |-> "server_answer", cx |-> cx, cy |-> cy]
        /\ UNCHANGED <<storeVars, netVars, inputVars, drawn, statsVars,
                       serverChunks, dropped, completionVars>>

\* the oldest message on the socket reaches its handler: socket.on("chunk_data")
\* or socket.on("cell_update"); `dropped` keeps the last update that found its
\* chunk missing, until an update of the same cell is stored
Deliver ==
    /\ wire # <<>>
    /\ LET m == Head(wire)
           key == createChunkKey(m.cx, m.cy)
           cached == key \in DOMAIN loadedChunks
           s == IF m.type = "chunk_data"
                THEN setChunk(Store, m.cx, m.cy, m.chunk)
                ELSE updateCell(Store, m.cx, m.cy, m.x, m.y, m.cell)
       IN  /\ wire' = Tail(wire)
           /\ loadedChunks' = s.loaded
           /\ requestedChunks' = s.requested
           /\ emitted' = s.sent
           /\ outstanding' = IF m.type = "chunk_data"
                             THEN [outstanding EXCEPT ![key] = @ - 1]
                             ELSE outstanding
           /\ sinceFault' = IF m.type = "chunk_data" /\ sinceFault[key] = outstanding[key]
                            THEN [sinceFault EXCEPT ![key] = @ - 1]
                            ELSE sinceFault
           /\ dropped' = IF m.type = "chunk_data"
                         THEN dropped
                         ELSE IF ~cached
                         THEN [dropped EXCEPT ![key] = [x |-> m.x, y |-> m.y,
                                                        cell |-> m.cell]]
                         ELSE IF dropped[key] # NULL /\ dropped[key].x = m.x
                                 /\ dropped[key].y = m.y
                         THEN [dropped EXCEPT ![key] = NULL]
                         ELSE dropped
           /\ ev' = IF m.type = "chunk_data"
                    THEN [kind |-> "chunk_data", cx |-> m.cx, cy |-> m.cy,
                          chunk |-> m.chunk, cached |-> cached,
                          pending |-> key \in requestedChunks]
                    ELSE [kind |-> "cell_update", cx |-> m.cx, cy |-> m.cy,
                          x |-> m.x, y |-> m.y, cell |-> m.cell]
    /\ UNCHANGED <<gridSize, fetchPending, isSocketConnected, faults, cleared>>
    /\ UNCHANGED <<inputVars, drawn, statsVars, serverChunks, completionVars>>

\* the chunk the players act on and the viewport shows
ServerChunkXs == {0}

NextNet ==
    \/ \E size \in InputGridSizes : FetchGridSizeOk(size)
    \/ \E cx \in ServerChunkXs : RequestChunk(cx, 0)
    \/ \E cx \in ServerChunkXs, p \in ServerPositions, cell \in CellValues :
           ServerUpdate(cx, 0, p[1], p[2], cell)
    \/ \E cx \in ServerChunkXs : ServerAnswer(cx, 0)
    \/ Deliver
    \/ ConnectError

SpecNet == Init /\ [][NextNet]_vars

----------------------------------------------------------------------------
(* Properties of the chunk store, checked under Spec *)

\* the key of the chunk message or request the last event carried
EvKey == createChunkKey(ev.cx, ev.cy)

HasGetChunk(msgs) == \E i \in 1..Len(msgs) : msgs[i].type = "get_chunk"

\* C1: no chunk key is at the same time cached (in loadedChunks) and pending
\* (in requestedChunks), in every reachable state of the store.
C1_CachedNeverPending ==
    \A key \in requestedChunks : key \notin DOMAIN loadedChunks

\* a pending key has just been cached by chunk_data while another key is pending
C1_Witness ==
    /\ ev.kind = "chunk_data"
    /\ ev.pending
    /\ EvKey \in DOMAIN loadedChunks
    /\ requestedChunks # {}

\* C2 as claimed: at most one outstanding fetch (get_chunk emitted and not yet
\* answered by chunk_data) per chunk key, whatever requests, arrivals and
\* connectivity faults occur.
C2_AtMostOneOutstanding ==
    \A key \in AllKeys : outstanding[key] <= 1

\* C2 as amended: per chunk key, at most one of the outstanding fetches was
\* emitted after the most recent connect_error.
C2_AtMostOneOutstandingSinceFault ==
    \A key \in AllKeys : sinceFault[key] <= 1 /\ sinceFault[key] <= outstanding[key]

\* a key re-requested after a connect_error: two fetches outstanding, one of
\* them emitted since the fault
C2_Witness ==
    \E key \in AllKeys :
        /\ outstanding[key] = 2
        /\ sinceFault[key] = 1
        /\ key \in requestedChunks

\* the clamped key of the requestChunk call the step makes, when it is a second
\* call for the key of the call handled just before it
SecondCallKey == clampedKey(gridSize, ev'.cx, ev'.cy)

IsSecondCall ==
    /\ gridSize # NULL
    /\ ev.kind = "requestChunk"
    /\ ev'.kind = "requestChunk"
    /\ clampedKey(gridSize, ev.cx, ev.cy) = SecondCallKey

\* what the claim promises of two successive calls: one pending marker for the
\* key, and one get_chunk emitted by the two calls together
OneMarkerOneFetch ==
    /\ SecondCallKey \in requestedChunks'
    /\ CountGetChunk(emitted, SecondCallKey) + CountGetChunk(emitted', SecondCallKey) = 1

C4_NoRequestWithoutGridSize ==
    [][gridSize = NULL => (~HasGetChunk(emitted') /\ requestedChunks' = requestedChunks)]_vars

\* requestChunk was called after fetchGridSize failed
C4_Witness ==
    /\ gridSize = NULL
    /\ ~fetchPending
    /\ ev.kind = "requestChunk"
    /\ requestedChunks = {}

\* the clamp as the claim states it: into [0, floor(dimension / chunkSize) - 1]
ClaimedClamp(c, dimension) ==
    LET m == (dimension \div CHUNK_SIZE) - 1
    IN  IF c < 0 THEN 0 ELSE IF c > m THEN m ELSE c

\* C5: with grid size known, requestChunk(cx, cy) clamps each coordinate into
\* [0, maxChunk]; if the clamped key is neither cached nor pending it marks the
\* key pending and emits exactly one get_chunk with the clamped coordinates,
\* otherwise it changes nothing and emits nothing.
C5_RequestChunkEffect ==
    [][(ev'.kind = "requestChunk" /\ gridSize # NULL) =>
        LET kx == ClaimedClamp(ev'.cx, gridSize.width)
            ky == ClaimedClamp(ev'.cy, gridSize.height)
            key == createChunkKey(kx, ky)
        IN  /\ 0 <= kx /\ kx <= (gridSize.width \div CHUNK_SIZE) - 1
            /\ 0 <= ky /\ ky <= (gridSize.height \div CHUNK_SIZE) - 1
            /\ loadedChunks' = loadedChunks
            /\ gridSize' = gridSize
            /\ IF key \notin DOMAIN loadedChunks /\ key \notin requestedChunks
               THEN /\ requestedChunks' = requestedChunks \cup {key}
                    /\ emitted' = <<[type |-> "get_chunk", cx |-> kx, cy |-> ky]>>
               ELSE /\ requestedChunks' = requestedChunks
                    /\ emitted' = <<>>]_vars

\* a request above the grid was clamped, marked pending and emitted
C5_Witness ==
    /\ ev.kind = "requestChunk"
    /\ ev.fresh
    /\ ev.cx > maxChunk(gridSize.width)
    /\ emitted = <<[type |-> "get_chunk", cx |-> maxChunk(gridSize.width), cy |-> 0]>>
    /\ createChunkKey(maxChunk(gridSize.width), 0) \in requestedChunks

\* C6: chunk_data for key k makes the cache entry of k exactly the arrived chunk
\* and removes k from pending, whether or not k was cached or pending before;
\* the other entries and pending keys stay, so the last arrival wins.
C6_ChunkArrivalReplaces ==
    [][ev'.kind = "chunk_data" =>
        LET key == createChunkKey(ev'.cx, ev'.cy)
        IN  /\ DOMAIN loadedChunks' = DOMAIN loadedChunks \cup {key}
            /\ loadedChunks'[key] = ev'.chunk
            /\ \A k \in DOMAIN loadedChunks : k # key => loadedChunks'[k] = loadedChunks[k]
            /\ requestedChunks' = requestedChunks \ {key}]_vars

\* a second, different chunk arrived for a key that was cached and not pending,
\* and replaced the first
C6_Witness ==
    /\ ev.kind = "chunk_data"
    /\ ev.cached
    /\ ~ev.pending
    /\ loadedChunks[EvKey] = ev.chunk
    /\ ev.chunk = UniformChunk(Cell(TRUE, FALSE))

\* C7: cell_update(cx, cy, x, y, cell) on a cached chunk replaces only the cell
\* at [y][x] of that chunk; every other cell, every other chunk and the pending
\* set are unchanged; on a chunk that is not cached the store is unchanged.
C7_CellUpdateFrame ==
    [][ev'.kind = "cell_update" =>
        LET key == createChunkKey(ev'.cx, ev'.cy)
        IN  /\ requestedChunks' = requestedChunks
            /\ gridSize' = gridSize
            /\ emitted' = <<>>
            /\ DOMAIN loadedChunks' = DOMAIN loadedChunks
            /\ \A k \in DOMAIN loadedChunks : k # key => loadedChunks'[k] = loadedChunks[k]
            /\ key \in DOMAIN loadedChunks =>
                 /\ DOMAIN loadedChunks'[key] = DOMAIN loadedChunks[key]
                 /\ \A r \in DOMAIN loadedChunks[key] :
                      /\ DOMAIN loadedChunks'[key][r] = DOMAIN loadedChunks[key][r]
                      /\ \A c \in DOMAIN loadedChunks[key][r] :
                           loadedChunks'[key][r][c] =
                               IF r = ev'.y + 1 /\ c = ev'.x + 1
                               THEN ev'.cell
                               ELSE loadedChunks[key][r][c]]_vars

\* a cell_update changed one cell of a cached chunk and left its neighbour
C7_Witness ==
    /\ ev.kind = "cell_update"
    /\ EvKey \in DOMAIN loadedChunks
    /\ ev.y < ChunkSide
    /\ loadedChunks[EvKey][ev.y + 1][ev.x + 1] = ev.cell
    /\ \E c \in 1..ChunkSide : loadedChunks[EvKey][ev.y + 1][c] # ev.cell

\* C8: a connect_error empties the pending set and leaves the cache unchanged,
\* and the next requestChunk for a key it dropped, if the key is still not
\* cached, marks the key pending again and emits a new get_chunk.
C8_FaultClearsPendingForRetry ==
    [][/\ ev'.kind = "connect_error" =>
            (requestedChunks' = {} /\ loadedChunks' = loadedChunks)
       /\ (ev'.kind = "requestChunk" /\ gridSize # NULL) =>
            LET key == clampedKey(gridSize, ev'.cx, ev'.cy)
            IN  (key \in cleared /\ key \notin DOMAIN loadedChunks) =>
                    /\ key \notin requestedChunks
                    /\ key \in requestedChunks'
                    /\ CountGetChunk(emitted', key) = 1]_vars

\* a key dropped by a connect_error was requested again: it is pending, with
\* the fetch of before the fault and the new one outstanding
C8_Witness ==
    /\ ev.kind = "requestChunk"
    /\ ev.fresh
    /\ faults > 0
    /\ LET key == clampedKey(gridSize, ev.cx, ev.cy)
       IN  /\ key \in requestedChunks
           /\ outstanding[key] = 2
           /\ sinceFault[key] = 1
           /\ CountGetChunk(emitted, key) = 1

\* C9: after a socket 'disconnect' event all pending chunk markers are dropped.
C9_DisconnectClearsPending ==
    ev.kind = "disconnect" => requestedChunks = {}

\* --------------------------------------------------------------------------
\* Claims about the canvas input handlers (checked under SpecInput)
\* --------------------------------------------------------------------------

ChordCommitted(msgs) ==
    \E i \in 1..Len(msgs) : msgs[i].type = "chord_click"

\* at release of `button` at canvas point p: the held buttons together with
\* the released one contain 0 and 2, and the cell under p is the pressed cell
ChordCondition(button, p) ==
    LET coords == getMouseGridCoordinates(p.x, p.y, offset, zoom)
    IN  /\ {0, 2} \subseteq (pressedButtons \cup {button})
        /\ pressedCell # NULL
        /\ coords.cellX = pressedCell.x
        /\ coords.cellY = pressedCell.y

C11_GestureOneChord ==
    CurGesture.phase = 4 => (CurGesture.chords = 1 /\ CurGesture.others = 0)

\* the gesture is complete, the secondary button having been released first
C11_Witness ==
    /\ CurGesture.phase = 4
    /\ CurGesture.first = 2
    /\ CurGesture.chords = 1

HasActionMsg(msgs) == \E i \in 1..Len(msgs) : IsActionMsg(msgs[i])

\* C12: a mouse-down emits no reveal_cell, flag_cell or chord_click (nor any
\* other message) and schedules nothing; it leaves the store, the viewport,
\* hoverCell and isSpaceDown alone, changing at most pressedButtons,
\* pressedCell, isPanning and lastMouse. Every step that emits a game action
\* is a mouse-up.
C12_MouseDownCommitsNothing ==
    [][/\ \A b \in Buttons, p \in MousePoints :
            handleMouseDown(b, p) =>
                /\ emitted' = <<>>
                /\ UNCHANGED <<loadedChunks, requestedChunks, gridSize, offset, zoom,
                               canvasSize, hoverCell, isSpaceDown, timers>>
       /\ HasActionMsg(emitted') =>
            \E b \in ReleasedButtons, p \in MousePoints : handleMouseUp(b, p)]_vars

\* a press has just recorded a cell and a held button, and emitted nothing
C12_Witness ==
    /\ pressedCell # NULL
    /\ pressedButtons # {}
    /\ ~isPanning
    /\ CurGesture.phase = 1
    /\ emitted = <<>>

\* a release in the cell-pressed state that is no chord: a cell is pressed,
\* the canvas is not panning, and the held buttons with the released one do
\* not contain both 0 and 2
SingleRelease(button) ==
    /\ ~isPanning
    /\ pressedCell # NULL
    /\ ~({0, 2} \subseteq (pressedButtons \cup {button}))

\* exactly one message, an action of the given type for the pressed cell
CommitsOne(msgs, type) ==
    /\ Len(msgs) = 1
    /\ msgs[1].type = type
    /\ MsgCell(msgs[1]) = pressedCell

\* C13 as claimed: such a release over the pressed cell commits exactly one
\* action for that cell, reveal_cell for button 0 and flag_cell for button 2,
\* whatever the released button; over another cell it commits nothing.
C13_SingleReleaseCommitsOne ==
    [][\A b \in ReleasedButtons, p \in MousePoints :
           (handleMouseUp(b, p) /\ SingleRelease(b)) =>
               IF CellAt(p) = pressedCell
               THEN /\ Len(emitted') = 1
                    /\ IsActionMsg(emitted'[1])
                    /\ MsgCell(emitted'[1]) = pressedCell
                    /\ b = 0 => emitted'[1].type = "reveal_cell"
                    /\ b = 2 => emitted'[1].type = "flag_cell"
               ELSE emitted' = <<>>]_vars

\* C13 as amended: such a release over the pressed cell commits exactly one
\* action for that cell when the released button is 0 (reveal_cell) or 2
\* (flag_cell); for any other button, or over another cell, it commits nothing.
C13_PrimaryOrSecondaryReleaseCommitsOne ==
    [][\A b \in ReleasedButtons, p \in MousePoints :
           (handleMouseUp(b, p) /\ SingleRelease(b)) =>
               IF CellAt(p) = pressedCell /\ b = 0 THEN CommitsOne(emitted', "reveal_cell")
               ELSE IF CellAt(p) = pressedCell /\ b = 2 THEN CommitsOne(emitted', "flag_cell")
               ELSE emitted' = <<>>]_vars

\* a release of the secondary button alone has just flagged the pressed cell
C13_Witness ==
    /\ Len(emitted) = 1
    /\ emitted[1].type = "flag_cell"
    /\ pressedCell = NULL
    /\ pressedButtons = {}

\* C14: after every mouse-up, panning or not, action committed or not,
\* pressedCell is null and the released button is not in pressedButtons.
C14_MouseUpClearsPress ==
    [][\A b \in ReleasedButtons, p \in MousePoints :
           handleMouseUp(b, p) => (pressedCell' = NULL /\ b \notin pressedButtons')]_vars

\* a pan that moved the viewport has been ended by a mouse-up: nothing is
\* pressed or held any more
C14_Witness ==
    /\ wheels = 0
    /\ offset # [x |-> 0, y |-> 0]
    /\ ~isPanning
    /\ lastMouse = NULL
    /\ pressedCell = NULL
    /\ pressedButtons = {}

\* --------------------------------------------------------------------------
\* Claims about the edges of the grid and of the zoom range (checked under
\* SpecEdge)
\* --------------------------------------------------------------------------

\* C15: with the grid size known, every reveal_cell, flag_cell or chord_click
\* that is emitted is for a cell inside the grid: 0 <= x < width and
\* 0 <= y < height.
C15_NoActionOutsideGrid ==
    gridSize # NULL =>
        \A i \in 1..Len(emitted) :
            IsActionMsg(emitted[i]) =>
                isWithinGridBounds(MsgCell(emitted[i]).x, MsgCell(emitted[i]).y,
                                   gridSize.width, gridSize.height)

\* the hover cell the claim prescribes for a pointer at p
ClaimedHover(p) ==
    LET c == CellAt(p)
    IN  IF gridSize = NULL THEN NULL
        ELSE IF 0 <= c.x /\ c.x < gridSize.width /\ 0 <= c.y /\ c.y < gridSize.height
        THEN c
        ELSE NULL

\* C16: a mouse-move while not panning sets hoverCell to the cell under the
\* pointer if the grid size is known and the cell is inside the grid, and to
\* null otherwise; and in every reachable state hoverCell is null or a cell
\* with 0 <= x < width and 0 <= y < height.
C16_HoverInsideGridOrNull ==
    /\ [](hoverCell # NULL =>
            /\ gridSize # NULL
            /\ 0 <= hoverCell.x /\ hoverCell.x < gridSize.width
            /\ 0 <= hoverCell.y /\ hoverCell.y < gridSize.height)
    /\ [][\A p \in EdgePoints :
            (handleMouseMove(p) /\ ~isPanning) => hoverCell' = ClaimedHover(p)]_vars

\* the pointer hovers a cell of the grid under a zoomed viewport
C16_Witness ==
    /\ hoverCell # NULL
    /\ zoom # DEFAULT_ZOOM
    /\ ~isPanning

\* C17: once a wheel event has been handled, zoom is at least the minimum the
\* wheel handler computes from the canvas size (and at least ZOOM_LIMITS.MIN)
\* and at most ZOOM_LIMITS.MAX.
C17_ZoomWithinEffectiveRange ==
    wheels > 0 => (atLeastMinZoom(zoom, canvasSize) /\ zoom <= ZOOM_LIMITS.MAX)

\* --------------------------------------------------------------------------
\* Claims about the functions of constants/game.ts (checked under SpecPure)
\* --------------------------------------------------------------------------

Returned(fn) == ev.kind = "return" /\ ev.fn = fn

\* C18: clampZoom(clampZoom(z)) = clampZoom(z), and clampZoom(z) lies in
\* [ZOOM_LIMITS.MIN, ZOOM_LIMITS.MAX], for every z.
C18_ClampZoomIdempotentInRange ==
    Returned("clampZoom") =>
        /\ ev.result[2] = ev.result[1]
        /\ ZOOM_LIMITS.MIN <= ev.result[1]
        /\ ev.result[1] <= ZOOM_LIMITS.MAX

\* clampZoom has clamped a zoom above the range to ZOOM_LIMITS.MAX
C18_Witness ==
    /\ Returned("clampZoom")
    /\ ev.arg > ZOOM_LIMITS.MAX
    /\ ev.result[1] = ZOOM_LIMITS.MAX

\* C20: for every integer c, negative included,
\* worldToChunk(c) * CHUNK_SIZE + worldToLocal(c) = c and
\* 0 <= worldToLocal(c) < CHUNK_SIZE.
C20_ChunkLocalRecompose ==
    Returned("worldToChunk") =>
        /\ ev.result[1] * CHUNK_SIZE + ev.result[2] = ev.arg
        /\ 0 <= ev.result[2]
        /\ ev.result[2] < CHUNK_SIZE

\* a negative coordinate that is no multiple of CHUNK_SIZE has been split
C20_Witness ==
    /\ Returned("worldToChunk")
    /\ ev.arg < -CHUNK_SIZE
    /\ ev.result[1] < -1
    /\ ev.result[2] > 0

\* --------------------------------------------------------------------------
\* C19 (checked under SpecEdge)
\* --------------------------------------------------------------------------

\* C19: a wheel event at canvas point p leaves the world point under p where
\* it was: (p - offset') / zoom' = (p - offset) / zoom on both axes, also when
\* the requested zoom is clamped. (Compared after multiplying out.)
C19_WheelKeepsAnchor ==
    [][\A d \in EdgeWheelDeltas, p \in EdgePoints :
           handleWheel(d, p) =>
               /\ (p.x - offset'.x) * zoom = (p.x - offset.x) * zoom'
               /\ (p.y - offset'.y) * zoom = (p.y - offset.y) * zoom'
               /\ zoom' = Max(ZOOM_LIMITS.MIN, Min(ZOOM_LIMITS.MAX, zoom - d * ZoomPerDelta))]_vars

\* a wheel event away from the viewport origin was clamped at ZOOM_LIMITS.MIN
\* and moved the offset
C19_Witness ==
    /\ wheels > 0
    /\ zoom = ZOOM_LIMITS.MIN
    /\ offset # [x |-> 0, y |-> 0]

\* ---------------------------------------------------------------------------
\* the visible chunk set

\* the set of chunk coordinates of a rectangle left..right x top..bottom
RectChunks(rect) == (rect.left..rect.right) \X (rect.top..rect.bottom)

\* the chunks that hold at least one cell of [left, right) x [top, bottom)
ChunksOfCells(cells) ==
    {c \in (0..(cells.right \div CHUNK_SIZE)) \X (0..(cells.bottom \div CHUNK_SIZE)) :
        \E x \in cells.left..(cells.right - 1), y \in cells.top..(cells.bottom - 1) :
            /\ x >= c[1] * CHUNK_SIZE /\ x < (c[1] + 1) * CHUNK_SIZE
            /\ y >= c[2] * CHUNK_SIZE /\ y < (c[2] + 1) * CHUNK_SIZE}

ListedChunks(chunks) == {<<chunks[i].cx, chunks[i].cy>> : i \in 1..Len(chunks)}

\* C21: the chunk set returned by calculateVisibleChunks contains every chunk
\* of the un-buffered visible chunk rectangle and lies within
\* [0, maxChunkX] x [0, maxChunkY].
C21_BufferedRectCoversVisible ==
    Returned("calculateVisibleChunks") =>
        /\ RectChunks(ev.result.visible) \subseteq ListedChunks(ev.result.chunks)
        /\ \A c \in ListedChunks(ev.result.chunks) :
            /\ c[1] >= 0 /\ c[1] <= (ev.arg.grid.width \div CHUNK_SIZE) - 1
            /\ c[2] >= 0 /\ c[2] <= (ev.arg.grid.height \div CHUNK_SIZE) - 1

\* the chunk rectangle the claim's formula gives for visible cells
\* [left, right) x [top, bottom)
FormulaRect(cells) ==
    ((cells.left \div CHUNK_SIZE)..((cells.right - 1) \div CHUNK_SIZE))
        \X ((cells.top \div CHUNK_SIZE)..((cells.bottom - 1) \div CHUNK_SIZE))

SomeCellVisible(cells) == cells.left < cells.right /\ cells.top < cells.bottom

\* the scenario of the claim: grid 200x200, cells (0,0)-(150,150) at zoom 1.0
C23_Scenario ==
    /\ Returned("calculateVisibleChunks")
    /\ ev.arg.grid = [width |-> 2 * CHUNK_SIZE, height |-> 2 * CHUNK_SIZE]
    /\ ev.arg.zoom = ZoomUnit
    /\ ev.result.cells = [left |-> 0, top |-> 0, right |-> CHUNK_SIZE + CHUNK_SIZE \div 2,
                          bottom |-> CHUNK_SIZE + CHUNK_SIZE \div 2]

\* C23 as stated: for every viewport the un-buffered visible chunk rectangle is
\* exactly the set of chunks that contain at least one visible cell.
C23_VisibleRectExactlyChunksOfCells ==
    Returned("calculateVisibleChunks") =>
        RectChunks(ev.result.visible) = ChunksOfCells(ev.result.cells)

\* C23 amended: the un-buffered visible chunk rectangle is the cross product
\* floor(left/CHUNK_SIZE)..floor((right-1)/CHUNK_SIZE) x
\* floor(top/CHUNK_SIZE)..floor((bottom-1)/CHUNK_SIZE) for every viewport; it is
\* exactly the set of chunks that contain a visible cell whenever some cell is
\* visible; and in the scenario it is {(0,0),(1,0),(0,1),(1,1)}.
C23_VisibleRectIsFormulaRect ==
    Returned("calculateVisibleChunks") =>
        /\ RectChunks(ev.result.visible) = FormulaRect(ev.result.cells)
        /\ SomeCellVisible(ev.result.cells) =>
                RectChunks(ev.result.visible) = ChunksOfCells(ev.result.cells)
        /\ C23_Scenario =>
                RectChunks(ev.result.visible) = {<<0, 0>>, <<1, 0>>, <<0, 1>>, <<1, 1>>}

C23_Witness ==
    /\ C23_Scenario
    /\ RectChunks(ev.result.visible) = {<<0, 0>>, <<1, 0>>, <<0, 1>>, <<1, 1>>}

\* C24: getBufferZoneSize never decreases as zoom increases, is 0 for every
\* zoom below 0.5, and lies in 0..MAX_BUFFER_ZONE for every zoom.
C24_BufferSizeMonotoneAndCapped ==
    Returned("getBufferZoneSize") =>
        /\ ev.result[1] <= ev.result[2]
        /\ ev.result[1] \in 0..MAX_BUFFER_ZONE
        /\ 2 * ev.arg < ZoomUnit => ev.result[1] = 0

\* the first step: one thousandth below zoom 0.5 the buffer is 0, at 0.5 it is 1
C24_Witness ==
    /\ Returned("getBufferZoneSize")
    /\ 2 * (ev.arg + 1) = ZoomUnit
    /\ ev.result = <<0, 1>>

\* ---------------------------------------------------------------------------
\* panning

\* C30: while a pan started by a mouse-down with the space key held is under
\* way, every mouse-move adds the pointer delta since the previous pointer
\* position to the offset and leaves zoom alone, so that after any sequence of
\* moves offset = offset at press + (pointer position - pointer position at
\* press); and a mouse-up ends the pan.
C30_PanFollowsPointer ==
    /\ [](isPanning /\ panStart # NULL =>
            /\ lastMouse # NULL
            /\ offset = [x |-> panStart.base.x + lastMouse.x,
                         y |-> panStart.base.y + lastMouse.y]
            /\ zoom = panStart.zoom)
    /\ [][\A p \in MousePoints :
            handleMouseMove(p) /\ isPanning /\ lastMouse # NULL =>
                /\ offset' = [x |-> offset.x + (p.x - lastMouse.x),
                              y |-> offset.y + (p.y - lastMouse.y)]
                /\ lastMouse' = p
                /\ zoom' = zoom
                /\ isPanning']_vars
    /\ [][\A b \in ReleasedButtons, p \in MousePoints :
            handleMouseUp(b, p) => ~isPanning']_vars

\* a pan that has moved the viewport by one step to the right
C30_Witness ==
    /\ isPanning
    /\ panStart # NULL
    /\ panStart.base # [x |-> -lastMouse.x, y |-> -lastMouse.y]
    /\ wheels = 0
    /\ offset.x > 0

\* ---------------------------------------------------------------------------
\* redraw

\* C25: a redraw pass leaves the chunk cache, the pending set, the viewport
\* (offset, zoom, canvas size) and the interaction state (hoverCell,
\* pressedCell, pressedButtons, panning flags) unchanged and emits no network
\* message; a second pass right after it would fill the same cells.
C25_RedrawChangesOnlyCanvas ==
    [][Redraw =>
        /\ UNCHANGED <<loadedChunks, requestedChunks, gridSize>>
        /\ UNCHANGED <<offset, zoom, canvasSize>>
        /\ UNCHANGED <<hoverCell, pressedCell, pressedButtons, isPanning, lastMouse,
                       isSpaceDown>>
        /\ UNCHANGED <<emitted, outstanding, timers>>
        /\ drawn' = renderPass']_vars

\* a pass has filled the pressed cell of a cached chunk with the pressed colour
C25_Witness ==
    /\ pressedCell # NULL
    /\ drawn = renderPass
    /\ \E c \in drawn : c.fill = "pressed" /\ pressedCell = [x |-> c.x, y |-> c.y]

\* ---------------------------------------------------------------------------
\* viewport changes

\* the viewport of the current render
CurrentView == [grid |-> gridSize, zoom |-> zoom, offset |-> offset, canvasSize |-> canvasSize]

ViewportChanged == offset' # offset \/ zoom' # zoom \/ canvasSize' # canvasSize

\* C22: after every viewport change (pan move, wheel zoom, resize) with the grid
\* size known, requestChunk has been invoked for every member of the chunk set
\* computed from the viewport as it is after the change, so that every chunk of
\* the current buffered rectangle is then cached or pending.
C22_ViewportChangeRequestsCurrentSet ==
    [][ViewportChanged /\ gridSize # NULL =>
        LET s == requestVisibleChunks(Store, CurrentView')
            chunks == calculateVisibleChunks(CurrentView')
        IN  /\ requestedChunks' = s.requested
            /\ emitted' = s.sent
            /\ \A i \in 1..Len(chunks) :
                   LET key == createChunkKey(chunks[i].cx, chunks[i].cy)
                   IN  key \in requestedChunks' \/ key \in DOMAIN loadedChunks']_vars

\* ---------------------------------------------------------------------------
\* refresh after an action

CommittedTypes(msgs) == {msgs[i].type : i \in 1..Len(msgs)}

\* C26: every mouse-up that commits a reveal or a chord schedules exactly one
\* timer, and the timer, when it fires, runs requestVisibleChunks once; a
\* mouse-up that commits a flag, or nothing, schedules none.
C26_RevealAndChordScheduleRefresh ==
    /\ [][\A b \in ReleasedButtons, p \in MousePoints :
            handleMouseUp(b, p) =>
                /\ CommittedTypes(emitted') \cap {"reveal_cell", "chord_click"} # {} =>
                       /\ Len(timers') = Len(timers) + 1
                       /\ \A i \in 1..Len(timers) : timers'[i] = timers[i]
                /\ CommittedTypes(emitted') \subseteq {"flag_cell"} => timers' = timers]_vars
    /\ [][TimerFires =>
            LET s == requestVisibleChunks(Store, Head(timers))
            IN  /\ timers' = Tail(timers)
                /\ requestedChunks' = s.requested
                /\ emitted' = s.sent]_vars

\* a chord has just been committed and its refresh is scheduled
C26_Witness ==
    /\ Len(timers) = 1
    /\ CommittedTypes(emitted) = {"chord_click"}

\* ---------------------------------------------------------------------------
\* the life of a pending marker

\* C27: a key leaves the pending set only in a step that delivers chunk_data
\* for that key or handles a connect_error; no other step removes a pending
\* marker, and while a key is pending no get_chunk is emitted for it.
C27_PendingLeavesOnlyByDataOrFault ==
    [][\A k \in AllKeys :
        k \in requestedChunks =>
            /\ k \notin requestedChunks' =>
                   \/ ev'.kind = "chunk_data" /\ createChunkKey(ev'.cx, ev'.cy) = k
                   \/ ev'.kind = "connect_error"
            /\ CountGetChunk(emitted', k) = 0]_vars

\* a cell_update has been handled for a chunk that is, and stays, pending
C27_Witness ==
    /\ ev.kind = "cell_update"
    /\ createChunkKey(ev.cx, ev.cy) \in requestedChunks
    /\ outstanding[createChunkKey(ev.cx, ev.cy)] > 0

\* ---------------------------------------------------------------------------
\* stats polling

----------------------------------------------------------------------------
(* The input machine, the commit frame and the cache's growth *)

\* C31: the input machine is in exactly one of Idle, PanningActive and
\* CellPressed: in no reachable state is isPanning true while pressedCell is
\* not null.
C31_NeverPanningWithPressedCell == ~(isPanning /\ pressedCell # NULL)

\* the step commits a reveal, flag or chord action
CommitsAction == \E i \in 1..Len(emitted') : IsActionMsg(emitted'[i])

\* the step changes the chunk cached under some key
ChangesCachedChunk ==
    \E key \in DOMAIN loadedChunks :
        key \notin DOMAIN loadedChunks' \/ loadedChunks'[key] # loadedChunks[key]

\* C32: a step that commits a reveal, flag or chord action leaves the cache
\* and the pending set unchanged, and a step changes a cached chunk only when
\* it is the delivery of a chunk_data or of a cell_update.
C32_CommitOnlyEmits ==
    [][/\ CommitsAction => /\ loadedChunks' = loadedChunks
                           /\ requestedChunks' = requestedChunks
       /\ ChangesCachedChunk => ev'.kind \in {"chunk_data", "cell_update"}]_vars

\* a chord has just been committed on a cell of a
\* cached chunk
C32_Witness ==
    /\ createChunkKey(0, 0) \in DOMAIN loadedChunks
    /\ emitted # <<>>
    /\ emitted[1].type = "chord_click"
    /\ emitted[1].cx = 0 /\ emitted[1].cy = 0

\* every get_chunk emitted has been answered and no refresh timer is pending:
\* unless another input event arrives, no handler runs any more
Settled ==
    /\ timers = <<>>
    /\ \A key \in AllKeys : outstanding[key] = 0

\* C33: with the grid size known and no connectivity fault, once the pans,
\* zooms and resizes have stopped and every emitted get_chunk has been
\* answered, every chunk of the buffered rectangle of the current viewport is
\* cached.
C33_SettledViewportIsCached ==
    (gridSize # NULL /\ faults = 0 /\ Settled) =>
        \A c \in ListedChunks(calculateVisibleChunks(CurrentView)) :
            createChunkKey(c[1], c[2]) \in DOMAIN loadedChunks

\* ---------------------------------------------------------------------------
\* the render pass

\* C34: getCellRenderStep(zoom) is 1 for zoom >= 0.7 and otherwise one of 2, 4
\* and 8, and never decreases as zoom decreases; a render pass draws no cell
\* whose chunk is not cached, and draws a flag, mine or number glyph only when
\* its step is 1.
C34_RenderStepAndGlyphs ==
    /\ Returned("getCellRenderStep") =>
           /\ 10 * ev.arg >= 7 * ZoomUnit => ev.result[1] = 1
           /\ 10 * ev.arg < 7 * ZoomUnit => ev.result[1] \in {2, 4, 8}
           /\ ev.result[2] <= ev.result[1]
    /\ Returned("render") =>
           \A d \in ev.result.cells :
               /\ createChunkKey(worldToChunk(d.x), worldToChunk(d.y)) \in ev.arg.cached
               /\ d.glyph # "none" => ev.result.cellStep = 1

\* a pass at a zoom below 0.7 has drawn flagged cells of the one cached chunk
\* without their flags, and nothing of the chunk that is not cached
C34_Witness ==
    /\ Returned("render")
    /\ ev.result.cellStep = 2
    /\ ev.arg.cached = {createChunkKey(0, 0)}
    /\ ev.arg.cell.flagged
    /\ ev.result.cells # {}
    /\ \A d \in ev.result.cells : d.glyph = "none"

\* ---------------------------------------------------------------------------
\* the cache only grows

\* C35: a key that is cached stays cached in every later state, and no later
\* step emits a get_chunk for it: neither a requestChunk for the key nor the
\* delayed re-request after a reveal or a chord.
C35_CachedStaysAndIsNotRefetched ==
    [][\A key \in DOMAIN loadedChunks :
           /\ key \in DOMAIN loadedChunks'
           /\ CountGetChunk(emitted', key) = 0]_vars

\* requestChunk has just been called for a cached key and emitted nothing
C35_Witness ==
    /\ ev.kind = "requestChunk"
    /\ createChunkKey(ev.cx, ev.cy) \in DOMAIN loadedChunks
    /\ emitted = <<>>

\* ---------------------------------------------------------------------------
\* pans and presses

\* C36: a mouse-up that ends a pan commits no reveal, flag or chord action,
\* whatever cell is recorded as pressed, whatever buttons are held and
\* wherever the pointer is.
C36_PanEndCommitsNothing ==
    [][\A b \in ReleasedButtons, p \in MousePoints :
           (isPanning /\ handleMouseUp(b, p)) =>
               /\ ~isPanning'
               /\ \A i \in 1..Len(emitted') : ~IsActionMsg(emitted'[i])]_vars

\* a pan that moved the viewport has been ended by the release of one of two
\* held buttons: nothing was emitted and the other button is still held
C36_Witness ==
    /\ wheels = 0
    /\ offset # [x |-> 0, y |-> 0]
    /\ ~isPanning
    /\ lastMouse = NULL
    /\ pressedCell = NULL
    /\ pressedButtons # {}
    /\ emitted = <<>>

\* C37: in every reachable state a recorded pressed cell implies that some
\* button is held: pressedCell # NULL => pressedButtons # {}.
C37_PressedCellImpliesHeldButton == pressedCell # NULL => pressedButtons # {}

\* two buttons were pressed on a cell and none released: the cell is recorded
\* and both are held
C37_Witness ==
    /\ pressedCell # NULL
    /\ pressedButtons = Buttons
    /\ ~isPanning

\* ---------------------------------------------------------------------------
\* the range of requested chunks

\* chunk coordinates inside the grid's chunk range
InChunkRange(cx, cy) ==
    /\ 0 <= cx /\ cx <= (gridSize.width \div CHUNK_SIZE) - 1
    /\ 0 <= cy /\ cy <= (gridSize.height \div CHUNK_SIZE) - 1

C39_VisibleChunksNeverEmpty ==
    Returned("calculateVisibleChunks") =>
        LET r == ev.result
            maxChunkX == (ev.arg.grid.width \div CHUNK_SIZE) - 1
            maxChunkY == (ev.arg.grid.height \div CHUNK_SIZE) - 1
        IN  /\ r.final.left <= r.final.right
            /\ r.final.top <= r.final.bottom
            /\ Len(r.chunks) = (r.final.right - r.final.left + 1)
                                   * (r.final.bottom - r.final.top + 1)
            /\ r.cells.right <= 0 => r.final.left = 0
            /\ r.cells.bottom <= 0 => r.final.top = 0
            /\ r.cells.left >= ev.arg.grid.width => r.final.right = maxChunkX
            /\ r.cells.top >= ev.arg.grid.height => r.final.bottom = maxChunkY

\* the grid lies entirely to the right of and below the window, no cell is
\* visible, and the list is the one chunk at the grid's origin
C39_Witness ==
    /\ Returned("calculateVisibleChunks")
    /\ ev.result.cells.right <= 0
    /\ ev.result.cells.bottom <= 0
    /\ ev.result.chunks = <<[cx |-> 0, cy |-> 0]>>

\* whether the board of the last poll is complete
BoardComplete == checkCompletion(gridSize, backendStats, FALSE)

\* C40: minimizing hides the completion screen; it stays hidden for as long
\* as the polled revealed count has not been below COMPLETION_RESET_THRESHOLD
\* since, and it appears again only on a board that is complete
C40_MinimizedUntilResetAndCompletion ==
    [][/\ MinimizeCompletion => ~showCompletion'
       /\ ~resetSeen' => ~showCompletion'
       /\ ~showCompletion /\ showCompletion' => BoardComplete']_vars

====
